---------------------------- MODULE Spec2Model ----------------------------
(***************************************************************************)
(* A model of the browser-network `Network` node (src/src/index.ts, first  *)
(* revision, lines 1-674) with its collaborators: Connection               *)
(* (src/unnamed/part_006), BehaviorCache, Repeater, and the stand-alone    *)
(* RudeList (src/unnamed/part_013).                                        *)
(*                                                                         *)
(* Every method of the class is an operator from a node state record `st`  *)
(* to the node state after the call; every timer, transport event, HTTP    *)
(* completion and user call is an action that applies the operators of the *)
(* handler it runs, as one atomic step (the event loop is single-threaded).*)
(***************************************************************************)
EXTENDS Integers, Sequences, FiniteSets, TLC

(***************************************************************************)
(* Bounds of the model.                                                    *)
(***************************************************************************)
NumNodes == 3          \* node addresses (clientIds) 1..NumNodes
MaxConnIds == 3        \* connection uuids handed out in the connection specs
MaxMsgIds == 2         \* message uuids handed out in the connection specs
MaxData == 2           \* payloads received by one node in the connection specs
MaxTicks == 2          \* repeater ticks per round in the connection specs
MaxPosts == 1          \* switchboard requests in flight per node
StartTime == 1         \* Date.now() when the node is constructed (always > 0)

(***************************************************************************)
(* Program constants.                                                      *)
(***************************************************************************)
MEMORY_DURATION == 60000
SWITCHBOARD_REQUEST_ITERATIONS == 15
SWITCHBOARD_BACKOFF_DURATION == 10000
DefaultMaxMessageRateBeforeRude == 100
DefaultMaxConnections == 10
DefaultTtl == 6
VolunteerTtl == 2
WelcomeTtl == 1
RateWindow == 1000

(***************************************************************************)
(* Encodings.  Addresses, ips, ids and timestamps are naturals; 0 encodes  *)
(* "undefined"/null for each of them, and the wildcard destination '*'.    *)
(***************************************************************************)
Nodes == 1..NumNodes
NoClient == 0          \* connection.clientId undefined
NoSdp == 0             \* negotiation.sdp === null
Star == 0              \* destination '*'
APP_ID == "network"

\* The environment: an SDP string is modelled by the ip address
\* getIpFromRTCSDP extracts from it.  Nodes 1 and 2 present the same ip (two
\* tabs of one machine), the last node another one.
IpOf(n) == IF n = NumNodes THEN 2 ELSE 1
Ips == {IpOf(n) : n \in Nodes}

VARIABLES
  now,        \* Date.now()
  mesh,       \* the nodes that run the program; the others are environment
  userConfig, \* the `config` object each node was constructed with
  config,     \* this.config
  conns,      \* this._connections, in insertion order (Object.values order)
  seen,       \* this._seenMessageIds: message id -> timestamp (0: absent)
  rudeIps,    \* this.rudeIps: ip -> timestamp (0: absent)
  cache,      \* this.behaviorCache.cache: ip -> sequence of event timestamps
  rep,        \* this.switchboardRequester: [on, iteration]
  vtimer,     \* this._switchboardVolunteerDelayTimeout is pending
  posts,      \* switchboard requests of doSwitchboardRequest awaiting a response
  nextConn,   \* uuid(): the next fresh connection id
  nextMsg,    \* uuid(): the next fresh message id
  wire,       \* payloads sent by peer.send and not yet received
  last,       \* the handler that ran last, with what it sent and emitted
  msgCount,   \* per node and message id: `message` events emitted so far
  evictCount, \* per node and message id: times the id was garbage collected
  own,        \* per node: the ids of the messages the node originated
  judged,     \* per node: the clients whose message rate the node found rude
  heard,      \* per node: the answer messages handed to handleAnswerMessage
  board,      \* the switching service: the negotiations POSTed to it
  sg,         \* a signing node's gossip engine: what it saw, emitted and sent
  cx,         \* a Connection object of the later class, and the states it reported
  sc,         \* per node: the adaptive switchboard client's scheduled task
  rp,         \* a Repeater by itself: its interval and iteration, and func's invocations
  vheard,     \* per node: when each pending resume timer of the volunteer backoff was set
  flying,     \* per node: calls of the async getOrGenerateOpenConnection awaiting the offer signal
  bh,         \* a BehaviorCache by itself: its cache, the calls made, and the last verdict
  rl          \* a RudeList instance: its _events, and the last isRude call

vars == <<now, mesh, userConfig, config, conns, seen, rudeIps, cache, rep,
          vtimer, posts, nextConn, nextMsg, wire, last, msgCount, evictCount, own,
          judged, heard, board, sg, cx, sc, rp, vheard, flying, bh, rl>>

(***************************************************************************)
(* Helpers on sequences.                                                   *)
(***************************************************************************)
Range(s) == {s[i] : i \in DOMAIN s}
Min(S) == CHOOSE x \in S : \A y \in S : x <= y
Max(S) == CHOOSE x \in S : \A y \in S : x >= y
RemoveAt(s, i) == SubSeq(s, 1, i - 1) \o SubSeq(s, i + 1, Len(s))
FindFirst(s, P(_)) ==
  LET hits == {i \in DOMAIN s : P(s[i])}
  IN IF hits = {} THEN 0 ELSE Min(hits)

(***************************************************************************)
(* util.ts                                                                 *)
(***************************************************************************)
getIpFromRTCSDP(sdp) == sdp

(***************************************************************************)
(* Network.constructor: Object.assign(config, {...defaults}) copies the    *)
(* defaults ONTO the user's object, so every default wins.                 *)
(***************************************************************************)
Defaults ==
  [maxConnections |-> DefaultMaxConnections,
   maxMessageRateBeforeRude |-> DefaultMaxMessageRateBeforeRude,
   respectSwitchboardVolunteerMessages |-> TRUE]

\* Object.assign(target, source): every own property of source overwrites
\* the property of that name on target.
ObjectAssign(target, source) ==
  [k \in DOMAIN target \cup DOMAIN source |->
     IF k \in DOMAIN source THEN source[k] ELSE target[k]]

Constructor(userCfg) == ObjectAssign(userCfg, Defaults)

\* The callers of getOrGenerateOpenConnection, none of them awaiting.
Callers == {"broadcastOffer", "doSwitchboardRequest"}
NoFlying == [c \in Callers |-> 0]

(***************************************************************************)
(* The node state record handed through the methods.                       *)
(*   out : payloads handed to peer.send, in order                          *)
(*   ev  : events emitted on the Network emitter, in order                 *)
(*   bc  : the broadcastMessage calls made, in order                       *)
(*   sw  : negotiations POSTed to the switchboard, in order                *)
(***************************************************************************)
St(n) ==
  [self |-> n, cfg |-> config[n], conns |-> conns[n], seen |-> seen[n],
   rudeIps |-> rudeIps[n], cache |-> cache[n], rep |-> rep[n],
   vtimer |-> vtimer[n], vheard |-> vheard[n], flying |-> flying[n],
   posts |-> posts[n],
   nextConn |-> nextConn, nextMsg |-> nextMsg,
   out |-> <<>>, ev |-> <<>>, bc |-> <<>>, sw |-> <<>>, ret |-> 0,
   threw |-> FALSE, judged |-> {}, heard |-> {}]

Emit(st, type, id) == [st EXCEPT !.ev = Append(@, [type |-> type, id |-> id])]

NoData == [present |-> TRUE, clientId |-> NoClient, connectionId |-> 0, sdp |-> NoSdp]

\* A message object.  hop and ttl0 are history fields that are not on the
\* wire: the number of transmissions this copy has made, and the ttl the
\* originator gave it.
Msg(id, clientId, appId, type, ttl, dest, data) ==
  [id |-> id, clientId |-> clientId, appId |-> appId, type |-> type,
   ttl |-> ttl, destination |-> dest, data |-> data, hop |-> 0, ttl0 |-> ttl]

(***************************************************************************)
(* Network.connections, hasConnection, getConnectionByClientId, isRude      *)
(***************************************************************************)
connections(st) == st.conns

getConnectionByClientId(st, clientId) ==
  LET i == FindFirst(st.conns, LAMBDA c : c.clientId = clientId)
  IN IF i = 0 THEN 0 ELSE st.conns[i].id

hasConnection(st, clientId) == getConnectionByClientId(st, clientId) # 0

isRude(st, ip) == st.rudeIps[ip] # 0

ConnById(st, id) ==
  LET i == FindFirst(st.conns, LAMBDA c : c.id = id)
  IN st.conns[i]

(***************************************************************************)
(* Network.send and Network.broadcastMessage                               *)
(***************************************************************************)
send(st, c, message) ==
  IF ~c.connected THEN st
  ELSE [st EXCEPT !.out = Append(@,
          [to |-> c.clientId, from |-> st.self, conn |-> c.id,
           msg |-> [message EXCEPT !.hop = @ + 1]])]

RECURSIVE SendLoop(_, _, _)
\* for (const connection of this.connections()) {
\*   if (!connection.negotiation.sdp) return
\*   this.send(connection, message) }
\* The result's `ret` is 1 when the loop ran to its end and 0 when it returned.
SendLoop(st, cs, message) ==
  IF cs = <<>> THEN [st EXCEPT !.ret = 1]
  ELSE IF Head(cs).sdp = NoSdp THEN [st EXCEPT !.ret = 0]
  ELSE SendLoop(send(st, Head(cs), message), Tail(cs), message)

\* this._seenMessageIds[id], 0 for undefined
SeenAt(st, id) == IF id \in DOMAIN st.seen THEN st.seen[id] ELSE 0

RecordSeenSkipped(st, message) == st
\* this._seenMessageIds[message.id] = Date.now()
RecordSeen(st, message) ==
  [st EXCEPT !.seen = [id \in DOMAIN @ \cup {message.id} |->
                         IF id = message.id THEN now ELSE @[id]]]

broadcastMessage(st, message) ==
  LET s1 == RecordSeen(st, message)
      s2 == SendLoop(s1, connections(s1), message)
      sentTo == {s2.out[i].conn : i \in (Len(s1.out) + 1)..Len(s2.out)}
      call == [msg |-> message,
               connected |-> {c.id : c \in {x \in Range(s1.conns) : x.connected}},
               sentTo |-> sentTo,
               emitted |-> s2.ret = 1]
      s3 == [s2 EXCEPT !.bc = Append(@, call), !.ret = 0]
  IN IF s2.ret = 1 THEN Emit(s3, "broadcast-message", message.id) ELSE s3

(***************************************************************************)
(* Network.broadcast: id and clientId are always set; then                 *)
(* Object.assign(message, { ttl: 6, destination: '*' }).                   *)
(***************************************************************************)
broadcast(st, um) ==
  LET message == ObjectAssign(um, [id |-> st.nextMsg, clientId |-> st.self])
      toBroadcast == ObjectAssign(message, [ttl |-> DefaultTtl, destination |-> Star])
      history == [hop |-> 0, ttl0 |-> toBroadcast.ttl]
  IN broadcastMessage([st EXCEPT !.nextMsg = @ + 1],
                      ObjectAssign(toBroadcast, history))

(***************************************************************************)
(* Network.rebroadcast                                                     *)
(***************************************************************************)
rebroadcastIgnoringTtl(st, message) == broadcastMessage(st, message)
rebroadcast(st, message) ==
  IF message.ttl = 0 THEN st
  ELSE broadcastMessage(st, [message EXCEPT !.ttl = @ - 1])

(***************************************************************************)
(* Connection (constructor, registerClientId, signal) and                  *)
(* Network.generateOfferConnection / generateAnswerConnection.             *)
(*   sdp       : this.negotiation.sdp, the LOCAL description the peer's    *)
(*               'signal' event delivered (null until then)                *)
(*   remoteSdp : the remote description handed to peer.signal              *)
(*   onSdp     : the listener registered on the connection's 'sdp' event   *)
(*   channelName : peer.channelName is not null (an initiator names its    *)
(*               channel at construction, a responder learns it when the   *)
(*               channel opens)                                            *)
(***************************************************************************)
NewConnection(id, initiator, connectionId) ==
  [id |-> id, clientId |-> NoClient, initiator |-> initiator,
   connectionId |-> connectionId, sdp |-> NoSdp, remoteSdp |-> NoSdp,
   connected |-> FALSE, destroyed |-> FALSE, channelName |-> initiator,
   onSdp |-> "none", replyTo |-> NoClient]

generateOfferConnection(st) == NewConnection(st.nextConn, TRUE, st.nextConn)

generateAnswerConnection(st, offer) ==
  [NewConnection(st.nextConn, FALSE, offer.connectionId)
     EXCEPT !.remoteSdp = offer.sdp]

addConnection(st, connection, clientId) ==
  LET c == IF clientId # NoClient
           THEN [connection EXCEPT !.clientId = clientId] ELSE connection
      s1 == [st EXCEPT !.conns = Append(@, c), !.nextConn = @ + 1]
  IN Emit(s1, "add-connection", c.id)

\* A destroyConnection that emits the event and leaves the set as it is.
destroyConnectionKept(st, id) == Emit(st, "destroy-connection", id)

destroyConnection(st, id) ==
  LET s1 == [st EXCEPT !.conns = SelectSeq(@, LAMBDA c : c.id # id)]
  IN Emit(s1, "destroy-connection", id)

(***************************************************************************)
(* Network.getOrGenerateOpenConnection: ret is the open connection's id.   *)
(***************************************************************************)
getOrGenerateOpenConnection(st) ==
  LET i == FindFirst(st.conns, LAMBDA c : c.clientId = NoClient)
  IN IF i # 0 THEN [st EXCEPT !.ret = st.conns[i].id]
     ELSE LET oc == generateOfferConnection(st)
          IN [addConnection(st, oc, NoClient) EXCEPT !.ret = oc.id]

(***************************************************************************)
(* Network.handleOffer: ret is the new connection's id, 0 for null.        *)
(***************************************************************************)
\* A handleOffer that turns every offer down.
handleOfferDeaf(st, offer) == [st EXCEPT !.ret = 0]

handleOffer(st, offer) ==
  IF \/ offer.clientId = st.self
     \/ hasConnection(st, offer.clientId)
     \/ offer.sdp = NoSdp
     \/ isRude(st, getIpFromRTCSDP(offer.sdp))
     \/ Len(connections(st)) >= st.cfg.maxConnections
  THEN [st EXCEPT !.ret = 0]
  ELSE LET connection == generateAnswerConnection(st, offer)
       IN [addConnection(st, connection, offer.clientId)
             EXCEPT !.ret = connection.id]

(***************************************************************************)
(* Network.handleAnswer                                                    *)
(***************************************************************************)
\* A handleAnswer that accepts no answer.
handleAnswerDeaf(st, answer) == st

\* A handleAnswer that does not look at whether the connection is taken.
handleAnswerGreedy(st, answer) ==
  LET i == FindFirst(st.conns, LAMBDA c : c.id = answer.connectionId)
  IN IF \/ i = 0
        \/ answer.sdp = NoSdp
        \/ isRude(st, getIpFromRTCSDP(answer.sdp))
        \/ Len(connections(st)) >= st.cfg.maxConnections
     THEN st
     ELSE [st EXCEPT !.conns[i].clientId = answer.clientId,
                     !.conns[i].remoteSdp = answer.sdp]

handleAnswer(st, answer) ==
  LET i == FindFirst(st.conns, LAMBDA c : c.id = answer.connectionId)
  IN IF \/ i = 0
        \/ st.conns[i].clientId # NoClient
        \/ answer.sdp = NoSdp
        \/ isRude(st, getIpFromRTCSDP(answer.sdp))
        \/ Len(connections(st)) >= st.cfg.maxConnections
     THEN st
     ELSE [st EXCEPT !.conns[i].clientId = answer.clientId,
                     !.conns[i].remoteSdp = answer.sdp]

(***************************************************************************)
(* Network.broadcastOffer                                                  *)
(***************************************************************************)
broadcastOffer(st) ==
  LET s1 == getOrGenerateOpenConnection(st)
      oc == ConnById(s1, s1.ret)
      offer == Msg(s1.nextMsg, s1.self, APP_ID, "offer", DefaultTtl, Star,
                   [present |-> TRUE, clientId |-> s1.self,
                    connectionId |-> oc.connectionId, sdp |-> oc.sdp])
  IN broadcastMessage([s1 EXCEPT !.nextMsg = @ + 1, !.ret = 0], offer)

(***************************************************************************)
(* Network.garbageCollectSeenMessages / garbageCollectConnections          *)
(***************************************************************************)
\* An expiry that already takes an id of exactly the memory duration.
ExpiredEarly(timestamp) == now - timestamp >= MEMORY_DURATION
\* Date.now() - timestamp > MEMORY_DURATION
Expired(timestamp) == now - timestamp > MEMORY_DURATION

garbageCollectSeenMessages(st) ==
  [st EXCEPT !.seen = [id \in {i \in DOMAIN @ : ~Expired(@[i])} |-> @[id]]]

RECURSIVE GCScan(_, _, _)
\* The for-in loop of garbageCollectConnections over cs[i..]; seenClientIds
\* maps a clientId to the id of the last connection seen with it (0: none).
\* The result is the id of the connection the loop collects before it
\* returns, 0 when the loop runs to its end.
GCScan(cs, i, seenClientIds) ==
  IF i > Len(cs) THEN 0
  ELSE LET connection == cs[i]
           seenConnectionId == seenClientIds[connection.clientId]
           seenConn == cs[CHOOSE j \in DOMAIN cs : cs[j].id = seenConnectionId]
       IN IF connection.destroyed THEN connection.id
          ELSE IF seenConnectionId # 0 /\ ~connection.channelName
               THEN connection.id
          ELSE IF seenConnectionId # 0 /\ ~seenConn.channelName
               THEN seenConnectionId
          ELSE GCScan(cs, i + 1,
                 [seenClientIds EXCEPT ![connection.clientId] = connection.id])

garbageCollectConnections(st) ==
  LET hit == GCScan(st.conns, 1,
                    [c \in {NoClient} \cup {x.clientId : x \in Range(st.conns)} |-> 0])
  IN IF hit = 0 THEN st ELSE destroyConnection(st, hit)

garbageCollect(st) == garbageCollectConnections(garbageCollectSeenMessages(st))

(***************************************************************************)
(* BehaviorCache.isOnGoodBehavior / hasIpSurpassedRateLimit                *)
(***************************************************************************)
\* events.forEach((event, index) => { if (now - event.timestamp > 1000)
\*   events.splice(index, 1) }).
\* Events are pushed with Date.now(), so their timestamps ascend and the
\* too-old ones are the first e of them.  forEach moves on to the next index
\* after a splice, so the event that slid into the spliced slot is not
\* visited: while the loop is within the too-old events, slot k holds the
\* event that was at position 2k-1.  It therefore removes the too-old
\* events at the odd positions 1, 3, ... <= e and keeps every other event.
ForEachSplice(events) ==
  LET e == Cardinality({i \in DOMAIN events : now - events[i] > RateWindow})
      removed == (e + 1) \div 2
  IN [j \in 1..(Len(events) - removed) |->
        IF j <= e \div 2 THEN events[2 * j] ELSE events[j + removed]]

\* ret is 1 when the ip is on good behavior, 0 when it is not.
isOnGoodBehavior(st, ip) ==
  LET pushed == Append(st.cache[ip], now)
      events == ForEachSplice(pushed)
  IN [st EXCEPT !.cache[ip] = events,
                !.ret = IF Len(events) > st.cfg.maxMessageRateBeforeRude
                        THEN 0 ELSE 1]

\* A BehaviorCache by itself: calls keeps the time of every call of
\* isOnGoodBehavior per ip; asked, at and verdict describe the last call.
NoBehavior ==
  [cache |-> [ip \in Ips |-> <<>>], calls |-> [ip \in Ips |-> <<>>],
   asked |-> 0, at |-> 0, verdict |-> TRUE]

\* new BehaviorCache(maxMessageRate).isOnGoodBehavior(ip)
BehaviorCacheCall(b, maxMessageRate, ip) ==
  LET r == isOnGoodBehavior([cache |-> b.cache, ret |-> 0,
                             cfg |-> [maxMessageRateBeforeRude |-> maxMessageRate]],
                            ip)
  IN [cache |-> r.cache, calls |-> [b.calls EXCEPT ![ip] = Append(@, now)],
      asked |-> ip, at |-> now, verdict |-> (r.ret = 1)]

(***************************************************************************)
(* Network.addToRudeList                                                   *)
(***************************************************************************)
addToRudeList(st, ip, clientId) ==
  LET s1 == [st EXCEPT !.rudeIps[ip] = now]
      connection == getConnectionByClientId(s1, clientId)
  IN IF clientId = NoClient \/ connection = 0 THEN s1
     ELSE destroyConnection(
            broadcast(s1, [type |-> "log", appId |-> APP_ID, data |-> NoData,
                           destination |-> clientId]),
            connection)

(***************************************************************************)
(* Repeater.begin / Repeater.stop                                          *)
(***************************************************************************)
RepeaterBegin(st) == IF st.rep.on THEN st ELSE [st EXCEPT !.rep.on = TRUE]

RepeaterStop(st) == [st EXCEPT !.rep = [on |-> FALSE, iteration |-> 1]]

(***************************************************************************)
(* Network.beginSwitchboardRequestPeriod                                   *)
(***************************************************************************)
beginSwitchboardRequestPeriod(st) ==
  LET s1 == RepeaterBegin(st)
      m == Msg(s1.nextMsg, s1.self, APP_ID, "switchboard-volunteer",
               VolunteerTtl, Star, NoData)
  IN broadcastMessage([s1 EXCEPT !.nextMsg = @ + 1], m)

(***************************************************************************)
(* Network.doSwitchboardRequest up to its await, and                       *)
(* Network.handleSwitchboardResponse, which runs when the POST resolves.   *)
(***************************************************************************)
Post(st, negotiation) == [st EXCEPT !.sw = Append(@, negotiation)]

Negotiation(type, clientId, connectionId, sdp) ==
  [type |-> type, clientId |-> clientId, connectionId |-> connectionId,
   sdp |-> sdp]

doSwitchboardRequest(st) ==
  LET s1 == getOrGenerateOpenConnection(st)
      existingConnection == ConnById(s1, s1.ret)
      s2 == [s1 EXCEPT !.ret = 0]
  IN IF existingConnection.sdp = NoSdp THEN s2
     ELSE [Post(s2, Negotiation("offer", s2.self, existingConnection.id,
                                existingConnection.sdp))
             EXCEPT !.posts = @ + 1]

(***************************************************************************)
(* The asynchronous revision (index.ts 925-939, 1116-1138, 1324-1364):     *)
(* generateOfferConnection resolves when the transport signals its offer,  *)
(* and getOrGenerateOpenConnection awaits it before addConnection.         *)
(***************************************************************************)
\* What the promise of generateOfferConnection resolves to: a connection
\* that holds its offer sdp.
generateOfferConnectionAsync(st) ==
  [NewConnection(st.nextConn, TRUE, st.nextConn) EXCEPT !.sdp = IpOf(st.self)]

\* Up to the await: ret is the open connection's id, 0 when the caller now
\* awaits a generation.
getOrGenerateOpenConnectionAsync(st, caller) ==
  LET i == FindFirst(st.conns, LAMBDA c : c.clientId = NoClient)
  IN IF i # 0 THEN [st EXCEPT !.ret = st.conns[i].id]
     ELSE [st EXCEPT !.flying[caller] = @ + 1, !.ret = 0]

\* After the await: this.addConnection(oc); return oc
openConnectionGenerated(st, caller) ==
  LET oc == generateOfferConnectionAsync(st)
  IN [addConnection([st EXCEPT !.flying[caller] = @ - 1], oc, NoClient)
        EXCEPT !.ret = oc.id]

\* What the caller does with the open connection it was given.
withOpenConnection(st, caller) ==
  LET oc == ConnById(st, st.ret)
      s1 == [st EXCEPT !.ret = 0]
  IN IF caller = "broadcastOffer"
     THEN broadcastMessage([s1 EXCEPT !.nextMsg = @ + 1],
            Msg(s1.nextMsg, s1.self, APP_ID, "offer", DefaultTtl, Star,
                [present |-> TRUE, clientId |-> s1.self,
                 connectionId |-> oc.connectionId, sdp |-> oc.sdp]))
     ELSE [Post(s1, Negotiation("offer", s1.self, oc.id, oc.sdp))
             EXCEPT !.posts = @ + 1]

RECURSIVE HandleBook(_, _)
HandleBook(st, book) ==
  IF book = <<>> THEN st
  ELSE LET negotiation == Head(book)
       IN IF negotiation.type = "offer"
          THEN LET s1 == handleOffer(st, negotiation)
                   i == FindFirst(s1.conns, LAMBDA c : c.id = s1.ret)
                   s2 == IF s1.ret = 0 THEN s1
                         ELSE [s1 EXCEPT !.conns[i].onSdp = "post", !.ret = 0]
               IN HandleBook(s2, Tail(book))
          ELSE HandleBook(handleAnswer(st, negotiation), Tail(book))

\* The handler of the earlier SwitchboardService, which throws on a failed
\* POST: if (!book) { throw new Error('got bad response from switchboard') }
handleSwitchboardResponseThrowing(st, book) ==
  IF ~book.ok THEN [st EXCEPT !.threw = TRUE]
  ELSE Emit(HandleBook(st, book.items), "switchboard-response", 0)

\* book.ok is FALSE for the undefined a failed POST resolves to.
handleSwitchboardResponse(st, book) ==
  IF ~book.ok THEN st
  ELSE Emit(HandleBook(st, book.items), "switchboard-response", 0)

(***************************************************************************)
(* Network.handleMessage and the handlers of the network's own messages    *)
(***************************************************************************)
Throw(st) == [st EXCEPT !.threw = TRUE]

handleOfferMessage(st, message) ==
  IF ~message.data.present THEN Throw(st)
  ELSE LET s1 == handleOffer(st, message.data)
           i == FindFirst(s1.conns, LAMBDA c : c.id = s1.ret)
       IN IF s1.ret = 0 THEN s1
          ELSE [s1 EXCEPT !.conns[i].onSdp = "bcast",
                          !.conns[i].replyTo = message.clientId, !.ret = 0]

\* st.heard notes whose answer message, for which offer, was handled.
handleAnswerMessage(st, message) ==
  IF ~message.data.present THEN Throw(st)
  ELSE handleAnswer([st EXCEPT !.heard = @ \cup {[clientId |-> message.clientId,
                                                  connectionId |-> message.data.connectionId]}],
                    message.data)

handleLogMessage(st, message) ==
  IF message.destination \notin {Star, st.self} THEN st
  ELSE IF ~message.data.present THEN Throw(st) ELSE st

\* st.vheard: the pending timeout is cleared and one is set now, to fire
\* after SWITCHBOARD_BACKOFF_DURATION + Math.random() * 1000.
handleSwitchboardVolunteerMessage(st, message) ==
  IF ~st.cfg.respectSwitchboardVolunteerMessages THEN st
  ELSE [RepeaterStop(st) EXCEPT !.vtimer = TRUE, !.vheard = {now}]

HasSeenNever(st, message) == FALSE
\* if (this._seenMessageIds[message.id]) { return }
HasSeen(st, message) == SeenAt(st, message.id) # 0

handleMessage(st, message) ==
  IF HasSeen(st, message) THEN st
  ELSE LET s1 == RecordSeen(st, message)
           s2 == IF message.appId # APP_ID THEN s1
                 ELSE CASE message.type = "offer" -> handleOfferMessage(s1, message)
                        [] message.type = "answer" -> handleAnswerMessage(s1, message)
                        [] message.type = "log" -> handleLogMessage(s1, message)
                        [] message.type = "switchboard-volunteer" ->
                             handleSwitchboardVolunteerMessage(s1, message)
                        [] OTHER -> Throw(s1)
       IN IF s2.threw THEN s2
          ELSE Emit(rebroadcast(s2, message), "message", message.id)

(***************************************************************************)
(* The listeners of registerRTCEventHandlers and of the Connection         *)
(***************************************************************************)
\* A data listener that hands on whatever it received.
onDataUnparsed(st, connId, parses, message) ==
  LET connection == ConnById(st, connId)
      peerAddress == getIpFromRTCSDP(connection.sdp)
      s1 == isOnGoodBehavior(st, peerAddress)
  IN IF s1.ret = 0
     THEN addToRudeList([s1 EXCEPT !.judged = @ \cup {connection.clientId}],
                        peerAddress, connection.clientId)
     ELSE handleMessage([s1 EXCEPT !.ret = 0], message)

\* peer.on('data')
onData(st, connId, parses, message) ==
  LET connection == ConnById(st, connId)
      peerAddress == getIpFromRTCSDP(connection.sdp)
      s1 == isOnGoodBehavior(st, peerAddress)
  IN IF s1.ret = 0
     THEN addToRudeList([s1 EXCEPT !.judged = @ \cup {connection.clientId}],
                        peerAddress, connection.clientId)
     ELSE IF ~parses THEN [s1 EXCEPT !.ret = 0]
     ELSE handleMessage([s1 EXCEPT !.ret = 0], message)

\* peer.on('connect')
onConnect(st, connId) ==
  LET i == FindFirst(st.conns, LAMBDA c : c.id = connId)
      s1 == [st EXCEPT !.conns[i].connected = TRUE,
                       !.conns[i].channelName = TRUE]
      m == Msg(s1.nextMsg, s1.self, APP_ID, "log", WelcomeTtl,
               s1.conns[i].clientId, NoData)
  IN broadcastMessage([s1 EXCEPT !.nextMsg = @ + 1], m)

\* A close listener that leaves the connection where it is.
onCloseIgnored(st, connId) == st

\* peer.on('close')
onClose(st, connId) == destroyConnection(st, connId)

\* peer.on('error'): debug(4, ...) only
onError(st, connId) == st

\* Connection's peer.on('signal') and the 'sdp' listener the network attached
onSignal(st, connId) ==
  LET i == FindFirst(st.conns, LAMBDA c : c.id = connId)
      s1 == [st EXCEPT !.conns[i].sdp = IpOf(st.self)]
      c == s1.conns[i]
      answer == Negotiation("answer", s1.self, c.connectionId, c.sdp)
  IN CASE c.onSdp = "bcast" ->
            broadcastMessage([s1 EXCEPT !.nextMsg = @ + 1],
              Msg(s1.nextMsg, s1.self, APP_ID, "answer", DefaultTtl, c.replyTo,
                  [present |-> TRUE, clientId |-> NoClient,
                   connectionId |-> c.connectionId, sdp |-> NoSdp]))
       [] c.onSdp = "post" -> Post(s1, answer)
       [] OTHER -> s1

\* Repeater.runFunction, the setInterval callback
runFunction(st) ==
  LET s1 == doSwitchboardRequest(st)
      s2 == IF s1.rep.iteration >= SWITCHBOARD_REQUEST_ITERATIONS
            THEN beginSwitchboardRequestPeriod(RepeaterStop(s1))
            ELSE s1
  IN [s2 EXCEPT !.rep.iteration = @ + 1]

(***************************************************************************)
(* State after `new Network(...)`: the constructor assigns the config and  *)
(* calls beginSwitchboardRequestPeriod (which starts the repeater and      *)
(* broadcasts a volunteer message nobody is connected to hear).  Node n's  *)
(* constructor draws message uuid n.                                       *)
(***************************************************************************)
Blank(n, cfg) ==
  [self |-> n, cfg |-> cfg, conns |-> <<>>, seen |-> <<>>,
   rudeIps |-> [ip \in Ips |-> 0], cache |-> [ip \in Ips |-> <<>>],
   rep |-> [on |-> FALSE, iteration |-> 1], vtimer |-> FALSE, vheard |-> {},
   flying |-> NoFlying,
   posts |-> 0, nextConn |-> 1, nextMsg |-> n,
   out |-> <<>>, ev |-> <<>>, bc |-> <<>>, sw |-> <<>>, ret |-> 0,
   threw |-> FALSE, judged |-> {}, heard |-> {}]

Constructed(n, userCfg) == beginSwitchboardRequestPeriod(Blank(n, Constructor(userCfg)))

(***************************************************************************)
(* The later Connection class (src/unnamed/part_007, lines 1-229), which   *)
(* keeps an offer and an answer negotiation and reports a `state`.  The    *)
(* transport (simple-peer) is the environment: `connected` is true from    *)
(* its connect event until it is destroyed; close and error destroy it.    *)
(*   remote : a remote description was handed to peer.signal               *)
(*   reported : the values the `state` getter returned, in order           *)
(* and, for its revision with encrypted descriptions (lines 231-503):      *)
(*   secret : the connection runs in encrypted mode                        *)
(*   received : the sdp of the remote negotiation as it was received       *)
(*   signalled : the sdp that was handed to peer.signal                    *)
(*   promise : the promise of ConnectionFactory.new, "none" for a          *)
(*             Connection made without the factory                         *)
(***************************************************************************)
NoAnswer == [present |-> FALSE, sdp |-> NoSdp]

NoConnection ==
  [made |-> FALSE, initiator |-> FALSE, offerSdp |-> NoSdp, answer |-> NoAnswer,
   peer |-> [connected |-> FALSE, destroyed |-> FALSE, remote |-> FALSE],
   reported |-> <<>>, secret |-> FALSE, received |-> NoSdp, signalled |-> NoSdp,
   promise |-> "none"]

\* new Connection(props): with a suppliedOfferNegotiation the connection is
\* a responder that holds the offer and a pending answer and signals the
\* offer to its transport; without one it is an initiator with a pending
\* offer.
ConnectionNew(suppliedSdp) ==
  IF suppliedSdp # NoSdp
  THEN [NoConnection EXCEPT !.made = TRUE, !.initiator = FALSE,
                            !.offerSdp = suppliedSdp,
                            !.answer = [present |-> TRUE, sdp |-> NoSdp],
                            !.peer.remote = TRUE]
  ELSE [NoConnection EXCEPT !.made = TRUE, !.initiator = TRUE]

\* this.peer.on('signal', data)
ConnectionOnSignal(c, type, sdp) ==
  CASE type = "offer" -> [c EXCEPT !.offerSdp = sdp]
    [] type = "answer" -> [c EXCEPT !.answer.sdp = sdp]
    [] OTHER -> c

\* private get _isPending()
isPending(c) ==
  \/ (c.initiator /\ c.offerSdp = NoSdp)
  \/ (~c.initiator /\ c.answer.sdp = NoSdp)

\* get state()
state(c) ==
  IF isPending(c) THEN "pending"
  ELSE IF ~isPending(c) /\ ~c.peer.connected THEN "open"
  ELSE "connected"

\* _handleAnswerNegotiation(answer)
handleAnswerNegotiation(c, sdp) ==
  [c EXCEPT !.answer = [present |-> TRUE, sdp |-> sdp], !.peer.remote = TRUE]

\* bnc.encrypt / bnc.decrypt of @browser-network/crypto: an encrypted sdp
\* differs from the sdp and decrypts to it.
CipherShift == 10
Encrypt(sdp) == sdp + CipherShift
Decrypt(sdp) == sdp - CipherShift

\* _conditionallyEncryptSdp / _conditionallyDecryptSdp
conditionallyEncryptSdp(c, sdp) == IF ~c.secret THEN sdp ELSE Encrypt(sdp)
conditionallyDecryptSdp(c, sdp) == IF ~c.secret THEN sdp ELSE Decrypt(sdp)

\* The constructor of the revision with encryption: the supplied offer is
\* kept as it is and a copy with the decrypted sdp is signalled.
ConnectionNewSecret(secret, suppliedSdp) ==
  LET c == [ConnectionNew(suppliedSdp) EXCEPT !.secret = secret]
  IN IF suppliedSdp = NoSdp THEN c
     ELSE [c EXCEPT !.received = suppliedSdp,
                    !.signalled = conditionallyDecryptSdp(c, suppliedSdp)]

\* this.peer.on('signal'): the local description is stored encrypted.
ConnectionOnSignalSecret(c, type, sdp) ==
  ConnectionOnSignal(c, type, conditionallyEncryptSdp(c, sdp))

\* _handleAnswerNegotiation: this.answer = answer; answer.sdp = await
\* decrypt(answer.sdp); this.peer.signal(answer).  this.answer and answer are
\* one object, so the assignment to answer.sdp is one to this.answer.sdp.
handleAnswerNegotiationSecret(c, sdp) ==
  LET plain == conditionallyDecryptSdp(c, sdp)
  IN [c EXCEPT !.answer = [present |-> TRUE, sdp |-> plain],
               !.received = sdp, !.signalled = plain, !.peer.remote = TRUE]

\* ConnectionFactory.new(props): the Connection is constructed and the
\* promise is resolved by the listener of its 'state-change' event; nothing
\* else settles it.
ConnectionFactoryNew(secret, suppliedSdp) ==
  [ConnectionNewSecret(secret, suppliedSdp) EXCEPT !.promise = "pending"]

\* this.emit('state-change') with the listener of the factory attached
emitStateChange(c) ==
  [c EXCEPT !.promise = IF @ = "pending" THEN "resolved" ELSE @]

(***************************************************************************)
(* The adaptive switchboard client of the specification (section 4.4): it  *)
(* keeps one scheduled task; each tick performs one request and then       *)
(* reschedules the task after the fast interval when the node has no       *)
(* active (connected) Connection and after the slow interval otherwise.    *)
(*   task : a tick is scheduled     due : the time it fires at             *)
(*   delays : the delays the client chose, in order                        *)
(***************************************************************************)
FastSwitchboardRequestInterval == 500
SlowSwitchboardRequestInterval == 3000

NoTask == [task |-> FALSE, due |-> 0, delays |-> <<>>]

activeConnections(st) == SelectSeq(st.conns, LAMBDA c : c.connected)

\* A client that polls at the slow interval whatever the connections are.
nextIntervalSlow(st) == SlowSwitchboardRequestInterval

nextInterval(st) ==
  IF Len(activeConnections(st)) = 0 THEN FastSwitchboardRequestInterval
  ELSE SlowSwitchboardRequestInterval

\* Scheduling the (single) task anew, at the end of a tick or at the start.
reschedule(client, st) ==
  [client EXCEPT !.task = TRUE, !.due = now + nextInterval(st),
                 !.delays = Append(@, nextInterval(st))]

(***************************************************************************)
(* A Repeater by itself (src/src/Repeater.ts).  rep is the object's        *)
(* [on, iteration] as in the node state (on: intervalId is set).           *)
(*   intervalId : this.intervalId, 0 when it is deleted                    *)
(*   timers : the intervals of setInterval that are live in the runtime    *)
(*   begins : the begin() calls of the owner since the last stop()         *)
(*   calls : the invocations of func since the round began                 *)
(*   done : that count for every round that reached onComplete             *)
(***************************************************************************)
NoRepeater ==
  [rep |-> [on |-> FALSE, iteration |-> 1], intervalId |-> 0, timers |-> {},
   nextTimer |-> 1, begins |-> 0, calls |-> 0, done |-> <<>>]

\* this.intervalId = setInterval(this.runFunction, this.delay)
RepeaterSetInterval(r) ==
  [RepeaterBegin([r EXCEPT !.rep.on = FALSE])
     EXCEPT !.intervalId = r.nextTimer, !.timers = @ \cup {r.nextTimer},
            !.nextTimer = @ + 1, !.calls = 0]

\* A begin() without the guard, like the start() of the earlier
\* SwitchboardService: this.requestTimer = setInterval(...)
RepeaterOwnerBeginUnguarded(r) == RepeaterSetInterval(r)

\* begin(): if (this.intervalId) { return }; a begin() that sets the
\* interval starts a round.
RepeaterOwnerBegin(r) ==
  IF r.intervalId # 0 THEN r ELSE RepeaterSetInterval(r)

\* stop(): clearTimeout(this.intervalId); delete this.intervalId;
\* this.iteration = 1
RepeaterOwnerStop(r) ==
  [RepeaterStop(r) EXCEPT !.timers = @ \ {r.intervalId}, !.intervalId = 0]

\* The onComplete the Network passes: it calls begin() again.
RepeaterOnComplete(r) ==
  RepeaterOwnerBegin([r EXCEPT !.done = Append(@, r.calls)])

\* private runFunction: this.func(); if (this.iteration >=
\* this.numIterations) { this.stop(); this.onComplete() }; this.iteration += 1
RepeaterRunFunction(r, numIterations) ==
  LET r1 == [r EXCEPT !.calls = @ + 1]
      r2 == IF r1.rep.iteration >= numIterations
            THEN RepeaterOnComplete(RepeaterOwnerStop(r1))
            ELSE r1
  IN [r2 EXCEPT !.rep.iteration = @ + 1]

FirstMsgId == NumNodes + 1

\* The config objects a user passes: none ({}), or one that sets maxConnections
\* (as the suite's max-connections test does).
UserMaxConnections == 2
UserConfigs == {<<>>, [maxConnections |-> UserMaxConnections]}

NoLast ==
  [op |-> "new", node |-> 0, arg |-> 0, ev |-> <<>>, bc |-> <<>>, sw |-> <<>>,
   threw |-> FALSE]

\* The switching service is played by the environment: no board is kept.
NoBoard == [on |-> FALSE, items |-> {}]

InitNodes(userCfgs, topology, firstConn) ==
  /\ userConfig = userCfgs
  /\ nextConn = firstConn
  /\ config = [n \in Nodes |-> Constructed(n, userCfgs[n]).cfg]
  /\ conns = topology
  /\ seen = [n \in Nodes |-> Constructed(n, userCfgs[n]).seen]
  /\ rudeIps = [n \in Nodes |-> Constructed(n, userCfgs[n]).rudeIps]
  /\ cache = [n \in Nodes |-> Constructed(n, userCfgs[n]).cache]
  /\ rep = [n \in Nodes |-> Constructed(n, userCfgs[n]).rep]
  /\ vtimer = [n \in Nodes |-> FALSE]
  /\ posts = [n \in Nodes |-> 0]
  /\ nextMsg = FirstMsgId
  /\ wire = {}
  /\ last = NoLast
  /\ msgCount = [n \in Nodes |-> <<>>]
  /\ evictCount = [n \in Nodes |-> <<>>]
  /\ own = [n \in Nodes |-> {Constructed(n, userCfgs[n]).bc[1].msg.id}]
  /\ judged = [n \in Nodes |-> {}]
  /\ heard = [n \in Nodes |-> {}]
  /\ rl = [events |-> <<>>, asked |-> NoClient, at |-> 0, verdict |-> FALSE]
  /\ sg = [seen |-> {}, ev |-> <<>>, out |-> {}, got |-> {}]
  /\ bh = NoBehavior
  /\ flying = [n \in Nodes |-> NoFlying]
  /\ vheard = [n \in Nodes |-> {}]
  /\ rp = NoRepeater
  /\ sc = [n \in Nodes |-> NoTask]
  /\ cx = NoConnection

(***************************************************************************)
(* Writing a handler's result back.                                        *)
(***************************************************************************)
Bump(f, ids) ==
  [id \in DOMAIN f \cup ids |->
     (IF id \in DOMAIN f THEN f[id] ELSE 0) + (IF id \in ids THEN 1 ELSE 0)]

MessageEventIds(ev) == {ev[i].id : i \in {j \in DOMAIN ev : ev[j].type = "message"}}

\* The ids of the messages node n built itself among the broadcastMessage calls.
OriginatedIds(n, bc) ==
  {bc[i].msg.id : i \in {j \in DOMAIN bc : bc[j].msg.clientId = n /\ bc[j].msg.hop = 0}}

\* The switching service's book after the POSTs sw: it keeps a client's
\* latest offer and every answer.
Posted(items, sw) ==
  LET offerers == {x.clientId : x \in {y \in Range(sw) : y.type = "offer"}}
  IN {x \in items : ~(x.type = "offer" /\ x.clientId \in offerers)} \cup Range(sw)

Apply(n, st, op, arg) ==
  /\ conns' = [conns EXCEPT ![n] = st.conns]
  /\ seen' = [seen EXCEPT ![n] = st.seen]
  /\ rudeIps' = [rudeIps EXCEPT ![n] = st.rudeIps]
  /\ cache' = [cache EXCEPT ![n] = st.cache]
  /\ rep' = [rep EXCEPT ![n] = st.rep]
  /\ vtimer' = [vtimer EXCEPT ![n] = st.vtimer]
  /\ posts' = [posts EXCEPT ![n] = st.posts]
  /\ nextConn' = st.nextConn
  /\ nextMsg' = st.nextMsg
  /\ last' = [op |-> op, node |-> n, arg |-> arg, ev |-> st.ev, bc |-> st.bc,
              sw |-> st.sw, threw |-> st.threw]
  /\ msgCount' = [msgCount EXCEPT ![n] = Bump(@, MessageEventIds(st.ev))]
  /\ evictCount' = [evictCount EXCEPT
                      ![n] = Bump(@, DOMAIN seen[n] \ DOMAIN st.seen)]
  /\ own' = [own EXCEPT ![n] = @ \cup OriginatedIds(n, st.bc)]
  /\ judged' = [judged EXCEPT ![n] = @ \cup st.judged]
  /\ heard' = [heard EXCEPT ![n] = @ \cup st.heard]
  /\ board' = IF board.on THEN [board EXCEPT !.items = Posted(@, st.sw)] ELSE board
  /\ vheard' = [vheard EXCEPT ![n] = st.vheard]
  /\ flying' = [flying EXCEPT ![n] = st.flying]
  /\ UNCHANGED <<now, mesh, userConfig, config, sg, cx, sc, rp, bh, rl>>

\* Payloads sent to nodes of the mesh travel; those sent to the environment
\* are only recorded in last.out.
Transmit(st) ==
  wire \cup {[to |-> st.out[i].to, from |-> st.out[i].from, msg |-> st.out[i].msg] :
               i \in {j \in DOMAIN st.out : st.out[j].to \in mesh}}

(***************************************************************************)
(* User calls                                                              *)
(***************************************************************************)
\* What a user passes to broadcast(): type, appId and data, and optionally
\* a ttl, a destination, or both.
Hello == [type |-> "hello", appId |-> "app", data |-> NoData]
UserMessages ==
  {Hello, ObjectAssign(Hello, [ttl |-> 1]), ObjectAssign(Hello, [destination |-> 2]),
   ObjectAssign(Hello, [ttl |-> 1, destination |-> 2])}

UserBroadcast(n, um, maxMsg) ==
  /\ n \in mesh /\ nextMsg <= maxMsg
  /\ LET st == broadcast(St(n), um)
     IN Apply(n, st, "broadcast", um) /\ wire' = Transmit(st)

UserAddToRudeList(n, ip, clientId, maxMsg) ==
  /\ n \in mesh /\ nextMsg <= maxMsg
  /\ LET st == addToRudeList(St(n), ip, clientId)
     IN Apply(n, st, "addToRudeList", 0)
        /\ wire' = Transmit(st)

(***************************************************************************)
(* Timers                                                                  *)
(***************************************************************************)
OfferBroadcastTick(n, maxConn, maxMsg) ==
  /\ n \in mesh /\ nextConn <= maxConn /\ nextMsg <= maxMsg
  /\ LET st == broadcastOffer(St(n))
     IN Apply(n, st, "broadcastOffer", 0) /\ wire' = Transmit(st)

GarbageCollectTick(n) ==
  /\ n \in mesh
  /\ LET st == garbageCollect(St(n))
     IN Apply(n, st, "garbageCollect", 0) /\ wire' = Transmit(st)

RepeaterTick(n, maxConn, maxMsg, maxTicks) ==
  /\ n \in mesh /\ rep[n].on /\ posts[n] < MaxPosts
  /\ rep[n].iteration <= maxTicks
  /\ nextConn <= maxConn /\ nextMsg <= maxMsg
  /\ LET st == runFunction(St(n))
     IN Apply(n, st, "runFunction", 0) /\ wire' = Transmit(st)

\* The resume timer set at time t fires: beginSwitchboardRequestPeriod.
VolunteerFire(n, t, maxMsg) ==
  /\ n \in mesh /\ vtimer[n] /\ t \in vheard[n] /\ nextMsg <= maxMsg
  /\ LET st == beginSwitchboardRequestPeriod(
                 [St(n) EXCEPT !.vtimer = (vheard[n] \ {t} # {}),
                               !.vheard = @ \ {t}])
     IN Apply(n, st, "volunteerTimeout", 0) /\ wire' = Transmit(st)

\* The timer fires at some time that these specifications do not measure.
VolunteerTimeout(n, maxMsg) == \E t \in vheard[n] : VolunteerFire(n, t, maxMsg)

(***************************************************************************)
(* The switchboard's response to a request of doSwitchboardRequest         *)
(***************************************************************************)
\* What the switchboard hands out: offers of the nodes' open connections
\* (a remote node's open connection has an id of the remote's, RemoteConnId)
\* and answers to one of this node's connection ids, with or without an sdp.
RemoteConnId == 7
Negotiations(connIds) ==
  UNION {{Negotiation("offer", c, RemoteConnId, s) : s \in {NoSdp, IpOf(c)}} :
           c \in Nodes}
  \cup UNION {{Negotiation("answer", c, k, s) : k \in connIds, s \in {NoSdp, IpOf(c)}} :
                c \in Nodes}

SwitchboardResponse(n, book, maxConn) ==
  /\ n \in mesh /\ posts[n] > 0
  /\ nextConn + Len(book.items) <= maxConn + 1
  /\ LET st == handleSwitchboardResponse([St(n) EXCEPT !.posts = @ - 1], book)
     IN /\ Apply(n, st, "switchboardResponse", IF book.ok THEN 1 ELSE 0)
        /\ wire' = Transmit(st)

(***************************************************************************)
(* Transport events of a connection                                        *)
(***************************************************************************)
ConnIdsOf(n) == {conns[n][i].id : i \in DOMAIN conns[n]}
ConnOf(n, id) == ConnById([conns |-> conns[n]], id)

PeerSignal(n, id, maxMsg) ==
  /\ n \in mesh /\ id \in ConnIdsOf(n) /\ nextMsg <= maxMsg
  /\ LET c == ConnOf(n, id)
     IN /\ c.sdp = NoSdp /\ ~c.destroyed
        /\ (c.initiator \/ c.remoteSdp # NoSdp)
  /\ LET st == onSignal(St(n), id)
     IN Apply(n, st, "signal", 0) /\ wire' = Transmit(st)

PeerConnect(n, id, maxMsg) ==
  /\ n \in mesh /\ id \in ConnIdsOf(n) /\ nextMsg <= maxMsg
  /\ LET c == ConnOf(n, id)
     IN /\ ~c.connected /\ ~c.destroyed
        /\ c.sdp # NoSdp /\ c.remoteSdp # NoSdp /\ c.clientId # NoClient
  /\ LET st == onConnect(St(n), id)
     IN Apply(n, st, "connect", 0) /\ wire' = Transmit(st)

PeerClose(n, id) ==
  /\ n \in mesh /\ id \in ConnIdsOf(n)
  /\ LET st == onClose(St(n), id)
     IN Apply(n, st, "close", 0) /\ wire' = Transmit(st)

\* A payload from the environment arrives on a connected connection.
PeerData(n, id, parses, message, maxMsg) ==
  /\ n \in mesh /\ id \in ConnIdsOf(n) /\ nextMsg <= maxMsg
  /\ ConnOf(n, id).connected
  /\ LET st == onData(St(n), id, parses, message)
     IN Apply(n, st, "data", message.id)
        /\ wire' = Transmit(st)

\* A payload sent by a node of the mesh arrives at its peer, on the
\* connection the peer holds for the sender; it is lost if the peer holds none.
Deliver(w, maxMsg) ==
  /\ w \in wire /\ nextMsg <= maxMsg
  /\ LET n == w.to
         i == FindFirst(conns[n], LAMBDA c : c.clientId = w.from /\ c.connected)
     IN IF i = 0
        THEN /\ wire' = wire \ {w}
             /\ UNCHANGED <<now, mesh, userConfig, config, conns, seen, rudeIps,
                            cache, rep, vtimer, posts, nextConn, nextMsg, last,
                            msgCount, evictCount, own, judged, heard, board, sg, cx, sc, rp, vheard, flying, bh, rl>>
        ELSE LET st == onData(St(n), conns[n][i].id, TRUE, w.msg)
             IN /\ Apply(n, st, "data", w.msg.id)
                /\ wire' = Transmit(st) \ {w}

AdvanceClock(d, maxNow) ==
  /\ now + d <= maxNow
  /\ now' = now + d
  /\ UNCHANGED <<mesh, userConfig, config, conns, seen, rudeIps, cache, rep,
                 vtimer, posts, nextConn, nextMsg, wire, last, msgCount,
                 evictCount, own, judged, heard, board, sg, cx, sc, rp, vheard, flying, bh, rl>>

(***************************************************************************)
(* Spec: one node (address 1) among peers played by the environment, which *)
(* delivers offers, answers, payloads and transport events in any order.   *)
(***************************************************************************)
Self == 1
LastMsgId == FirstMsgId + MaxMsgIds - 1

\* Payloads the environment's peers send: an application message, an offer
\* of node 3, a volunteer message of node 2, and a message of an unknown
\* network type.
EnvMessages ==
  {Msg(101, 2, "app", "hello", 1, Star, NoData),
   Msg(102, 3, APP_ID, "offer", DefaultTtl, Star,
       [present |-> TRUE, clientId |-> 3, connectionId |-> RemoteConnId, sdp |-> IpOf(3)]),
   Msg(103, 2, APP_ID, "switchboard-volunteer", VolunteerTtl, Star, NoData)}

Books ==
  {[ok |-> FALSE, items |-> <<>>], [ok |-> TRUE, items |-> <<>>]} \cup
  {[ok |-> TRUE, items |-> <<x>>] : x \in Negotiations(1..MaxConnIds)}

Init ==
  /\ now = StartTime
  /\ mesh = {Self}
  /\ \E uc \in UserConfigs :
       InitNodes([n \in Nodes |-> uc], [n \in Nodes |-> <<>>], 1)
  /\ board = NoBoard

Next ==
  \/ \E um \in UserMessages : UserBroadcast(Self, um, LastMsgId)
  \/ \E ip \in Ips, c \in Nodes : UserAddToRudeList(Self, ip, c, LastMsgId)
  \/ OfferBroadcastTick(Self, MaxConnIds, LastMsgId)
  \/ GarbageCollectTick(Self)
  \/ RepeaterTick(Self, MaxConnIds, LastMsgId, MaxTicks)
  \/ VolunteerTimeout(Self, LastMsgId)
  \/ \E book \in Books : SwitchboardResponse(Self, book, MaxConnIds)
  \/ \E id \in 1..MaxConnIds : PeerSignal(Self, id, LastMsgId)
  \/ \E id \in 1..MaxConnIds : PeerConnect(Self, id, LastMsgId)
  \/ \E id \in 1..MaxConnIds : PeerClose(Self, id)
  \/ \E id \in 1..MaxConnIds, m \in EnvMessages, parses \in BOOLEAN :
       /\ Len(cache[Self][IpOf(Self)]) < MaxData
       /\ PeerData(Self, id, parses, m, LastMsgId)

Spec == Init /\ [][Next]_vars


(***************************************************************************)
(* Properties of the single node (specification Spec)                      *)
(***************************************************************************)
\* The connections of node n that are bound to client c.
ConnsFor(n, c) == {i \in DOMAIN conns[n] : conns[n][i].clientId = c}

\* C4: when a garbage-collection run has finished, the node holds at most
\* one Connection per remote client: a duplicate made by accepting X's offer
\* and then X's answer to the node's own open offer has been collected.
C4_OneConnectionPerRemote ==
  last.op = "garbageCollect" =>
    \A c \in Nodes : Cardinality(ConnsFor(last.node, c)) <= 1

\* C7: broadcast() fills in only the fields its caller left out: a ttl or a
\* destination passed by the caller is the ttl or destination of the message
\* that is transmitted.
C7_BroadcastKeepsSuppliedFields ==
  last.op = "broadcast" =>
    \A i \in DOMAIN last.bc :
      /\ "ttl" \in DOMAIN last.arg => last.bc[i].msg.ttl = last.arg.ttl
      /\ "destination" \in DOMAIN last.arg =>
           last.bc[i].msg.destination = last.arg.destination

\* C8: every config field the user supplied to the constructor is the value
\* the node uses.
C8_UserConfigIsUsed ==
  \A n \in mesh : \A k \in DOMAIN userConfig[n] : config[n][k] = userConfig[n][k]

\* C9: every call of broadcastMessage sends to exactly the connections whose
\* transport is connected and emits one `broadcast-message` event, whatever
\* pending connections the connection list holds.
C9_BroadcastReachesEveryConnectedPeer ==
  \A i \in DOMAIN last.bc :
    /\ last.bc[i].sentTo = last.bc[i].connected
    /\ last.bc[i].emitted


(***************************************************************************)
(* SpecGossip: three nodes in a line 1 - 2 - 3 whose connections are       *)
(* established, except that node 3's transport to node 2 has not yet       *)
(* reported `connect`.  Node 1's user broadcasts, payloads travel and are  *)
(* delivered in any order, garbage collection runs on every node and the   *)
(* clock advances.                                                         *)
(***************************************************************************)
Link(id, self, peer, initiator, isConnected) ==
  [NewConnection(id, initiator, id) EXCEPT
     !.clientId = peer, !.sdp = IpOf(self), !.remoteSdp = IpOf(peer),
     !.connected = isConnected, !.channelName = initiator \/ isConnected]

Line ==
  [n \in Nodes |->
     CASE n = 1 -> <<Link(1, 1, 2, TRUE, TRUE)>>
       [] n = 2 -> <<Link(2, 2, 1, FALSE, TRUE), Link(3, 2, 3, TRUE, TRUE)>>
       [] n = 3 -> <<Link(4, 3, 2, FALSE, FALSE)>>
       [] OTHER -> <<>>]

GossipFirstConn == 5
GossipMsgIds == 1      \* messages originated after the connections were made
GossipLastMsgId == FirstMsgId + GossipMsgIds - 1
GossipClockStep == MEMORY_DURATION + 1
GossipMaxNow == StartTime + GossipClockStep

InitGossip ==
  /\ now = StartTime
  /\ mesh = {1, 2, 3}
  /\ InitNodes([n \in Nodes |-> <<>>], Line, GossipFirstConn)
  /\ board = NoBoard

NextGossip ==
  \/ UserBroadcast(1, Hello, GossipLastMsgId)
  \/ PeerConnect(3, 4, GossipLastMsgId)
  \/ \E w \in wire : Deliver(w, GossipLastMsgId + 1)
  \/ \E n \in {1, 2} : GarbageCollectTick(n)
  \/ AdvanceClock(GossipClockStep, GossipMaxNow)

SpecGossip == InitGossip /\ [][NextGossip]_vars


(***************************************************************************)
(* Properties of the gossip (specification SpecGossip)                     *)
(***************************************************************************)
\* f[id], 0 where the counter f has no entry for id
Count(f, id) == IF id \in DOMAIN f THEN f[id] ELSE 0

\* C1 as stated: each message id causes at most one `message` event on a
\* node, whatever garbage-collection runs and clock advances lie between its
\* arrivals.
C1_AtMostOneMessageEventPerId ==
  \A n \in mesh : \A id \in DOMAIN msgCount[n] : msgCount[n][id] <= 1

\* C1, amended: a message id causes at most one `message` event on a node for
\* each time the id enters the node's seen memory, i.e. one event, plus one
\* for every time garbage collection has evicted the id (ids older than
\* MEMORY_DURATION are forgotten) before it arrived again.
C1_AtMostOneMessageEventPerRemembering ==
  \A n \in mesh : \A id \in DOMAIN msgCount[n] :
    msgCount[n][id] <= 1 + Count(evictCount[n], id)

\* C1 witness: an id that already caused its `message` event arrives again
\* while it is remembered, and the arrival emits and sends nothing.
C1_SecondArrivalDropped ==
  /\ last.op = "data"
  /\ Count(msgCount[last.node], last.arg) = 1
  /\ Count(evictCount[last.node], last.arg) = 0
  /\ last.ev = <<>> /\ last.bc = <<>>

C10_NoMessageEventForOwnId ==
  \A n \in mesh : \A id \in own[n] : Count(msgCount[n], id) = 0

\* C10, amended: the originator records the id when it sends, so for as long
\* as the id stays in its seen memory an echo is dropped: the originator
\* emits `message` for its own id at most once per eviction of that id by
\* garbage collection (after MEMORY_DURATION).
C10_NoMessageEventForOwnIdWhileRemembered ==
  \A n \in mesh : \A id \in own[n] :
    /\ Count(msgCount[n], id) <= Count(evictCount[n], id)
    /\ Count(evictCount[n], id) = 0 => id \in DOMAIN seen[n]

\* C10 witness: a message comes back to its originator, which emits and
\* rebroadcasts nothing.
C10_EchoDropped ==
  /\ last.op = "data"
  /\ last.arg \in own[last.node]
  /\ \E c \in Range(conns[last.node]) : c.connected
  /\ Count(msgCount[last.node], last.arg) = 0
  /\ last.ev = <<>> /\ last.bc = <<>>


OfferBook(offer) == [ok |-> TRUE, items |-> <<offer>>]
Offers == {x \in Negotiations(1..MaxConnIds) : x.type = "offer"}

\* C23: an incoming offer is accepted (a responder Connection is created
\* for it) if and only if offer.address is not the node's own, there is no
\* Connected connection to offer.address, offer.sdp is present, the sender
\* is not rude and the connection count is below maxConnections; a
\* Connection to that address that is not connected does not cause refusal.
C23_OfferAcceptedIffConditions ==
  [][\A offer \in Offers :
       SwitchboardResponse(Self, OfferBook(offer), MaxConnIds) =>
         ((\E c \in Range(conns'[Self]) : c.id \notin ConnIdsOf(Self)) <=>
            /\ offer.clientId # Self
            /\ ~\E c \in Range(conns[Self]) :
                  c.clientId = offer.clientId /\ c.connected
            /\ offer.sdp # NoSdp
            /\ rudeIps[Self][getIpFromRTCSDP(offer.sdp)] = 0
            /\ Len(conns[Self]) < config[Self].maxConnections)]_vars

\* C32: an offer whose sdp is still null (its Connection is pending) is never
\* posted to the switchboard and never sent in-band to any peer: every offer
\* POSTed and every offer message handed to a connection carries an sdp.
C32_NoPendingOfferLeaves ==
  /\ \A i \in DOMAIN last.sw :
       last.sw[i].type = "offer" => last.sw[i].sdp # NoSdp
  /\ \A i \in DOMAIN last.bc :
       LET call == last.bc[i]
       IN (call.msg.appId = APP_ID /\ call.msg.type = "offer"
             /\ call.msg.clientId = last.node /\ call.sentTo # {})
            => call.msg.data.sdp # NoSdp

(***************************************************************************)
(* SpecCap: one node and a switchboard through which ever new clients      *)
(* offer and answer.  The steps are the offer-broadcast tick, the          *)
(* switchboard tick, the `signal` of the node's open connection, and the   *)
(* switchboard's responses.                                                *)
(***************************************************************************)
CapConnIds == 11
CapTicks == 12

\* Clients are interchangeable, so the environment takes them in order: the
\* next negotiation comes from the first client the node holds no
\* connection for.
FreshClient(n) ==
  1 + Max({Self} \cup {conns[n][i].clientId : i \in DOMAIN conns[n]})

OpenConnIds(n) ==
  {conns[n][i].id : i \in {j \in DOMAIN conns[n] : conns[n][j].clientId = NoClient}}

CapOffer(c) == Negotiation("offer", c, RemoteConnId, IpOf(c))
CapAnswer(c, k) == Negotiation("answer", c, k, IpOf(c))

\* Books of one offer, of one answer to an open connection, or of both.
CapBooks(n) ==
  {[ok |-> TRUE, items |-> <<CapOffer(FreshClient(n))>>]}
  \cup {[ok |-> TRUE, items |-> <<CapAnswer(FreshClient(n), k)>>] : k \in OpenConnIds(n)}
  \cup {[ok |-> TRUE,
         items |-> <<CapAnswer(FreshClient(n), k), CapOffer(FreshClient(n) + 1)>>] :
          k \in OpenConnIds(n)}

NextCap ==
  \/ OfferBroadcastTick(Self, CapConnIds, LastMsgId)
  \/ RepeaterTick(Self, CapConnIds, LastMsgId, CapTicks)
  \/ \E id \in OpenConnIds(Self) : PeerSignal(Self, id, LastMsgId)
  \/ \E book \in CapBooks(Self) : SwitchboardResponse(Self, book, CapConnIds)

SpecCap == Init /\ [][NextCap]_vars

\* C3: the number of Connections a node holds (open, pending and connected
\* together) never exceeds config.maxConnections.
C3_ConnectionCap ==
  \A n \in mesh : Len(conns[n]) <= config[n].maxConnections


(***************************************************************************)
(* SpecRude: one node with an established connection to a client whose ip  *)
(* differs from the node's.  The client sends payload after payload within *)
(* one second while the switchboard goes on handing out the client's       *)
(* offers and answers.                                                     *)
(***************************************************************************)
Spammer == NumNodes
MaxFlood == DefaultMaxMessageRateBeforeRude + 1
RudeConnIds == 3

Flood == Msg(101, Spammer, "app", "hello", 1, Star, NoData)

InitRude ==
  /\ now = StartTime
  /\ mesh = {Self}
  /\ InitNodes([n \in Nodes |-> <<>>],
               [n \in Nodes |-> IF n = Self THEN <<Link(1, Self, Spammer, TRUE, TRUE)>>
                                ELSE <<>>], 2)
  /\ board = NoBoard

RudeBooks(n) ==
  {[ok |-> TRUE, items |-> <<CapOffer(Spammer)>>]}
  \cup {[ok |-> TRUE, items |-> <<CapAnswer(Spammer, k)>>] : k \in OpenConnIds(n)}

NextRude ==
  \/ \E id \in ConnIdsOf(Self), parses \in BOOLEAN :
       /\ Len(cache[Self][IpOf(Self)]) < MaxFlood
       /\ PeerData(Self, id, parses, Flood, LastMsgId)
  \/ RepeaterTick(Self, RudeConnIds, LastMsgId, MaxTicks)
  \/ \E id \in OpenConnIds(Self) : PeerSignal(Self, id, LastMsgId)
  \/ \E book \in RudeBooks(Self) : SwitchboardResponse(Self, book, RudeConnIds)

SpecRude == InitRude /\ [][NextRude]_vars

\* C5: once a node has judged a sender rude, no offer and no answer of that
\* sender is accepted: no step adds a Connection for the sender, neither by
\* creating one nor by binding an open one to it.
C5_NoConnectionForRudeSender ==
  [][\A n \in mesh : \A c \in judged[n] :
       Cardinality(ConnsFor(n, c))' <= Cardinality(ConnsFor(n, c))]_vars


\* What the claim of C33 lists: no event, the seen memory, the connection
\* set and the rude list as they were, nothing sent.
MalformedDropped ==
  /\ last'.ev = <<>> /\ last'.bc = <<>> /\ wire' = wire
  /\ seen' = seen /\ conns' = conns /\ rudeIps' = rudeIps

\* The rate check of the data handler passes for a payload on connection id.
WithinRate(n, id) ==
  isOnGoodBehavior(St(n), getIpFromRTCSDP(ConnOf(n, id).sdp)).ret = 1

C37_RateIsPerSender ==
  [][\A id \in 1..RudeConnIds, parses \in BOOLEAN :
       PeerData(Self, id, parses, Flood, LastMsgId) =>
         \A ip \in Ips \ {IpOf(ConnOf(Self, id).clientId)} :
           /\ cache'[Self][ip] = cache[Self][ip]
           /\ rudeIps'[Self][ip] = rudeIps[Self][ip]]_vars

(***************************************************************************)
(* RudeList (the per-address rate tracker): registerMessage and isRude.    *)
(* events maps an address to the timestamps registered for it.             *)
(***************************************************************************)
MaxMessageRate == 2      \* the maxMessageRate the RudeList is constructed with
MaxRegistered == 3       \* registerMessage calls per address

RudeListEvents(events, address) ==
  IF address \in DOMAIN events THEN events[address] ELSE <<>>

\* registerMessage(negotiation): this._events[address].push(Date.now())
registerMessage(events, negotiation) ==
  [a \in DOMAIN events \cup {negotiation.clientId} |->
     IF a = negotiation.clientId
     THEN Append(RudeListEvents(events, a), now)
     ELSE events[a]]

\* isRude(address): timestamps.filter(t => t < now).length > maxMessageRate
RudeListIsRude(events, address) ==
  LET timestamps == SelectSeq(RudeListEvents(events, address), LAMBDA t : t < now)
  IN Len(timestamps) > MaxMessageRate

RegisterMessage(address) ==
  /\ Len(RudeListEvents(rl.events, address)) < MaxRegistered
  /\ rl' = [rl EXCEPT !.events = registerMessage(@, CapOffer(address))]
  /\ UNCHANGED <<now, mesh, userConfig, config, conns, seen, rudeIps, cache, rep,
                 vtimer, posts, nextConn, nextMsg, wire, last, msgCount,
                 evictCount, own, judged, heard, board, sg, cx, sc, rp, vheard, flying, bh>>

AskIsRude(address) ==
  /\ rl' = [rl EXCEPT !.asked = address, !.at = now,
                      !.verdict = RudeListIsRude(rl.events, address)]
  /\ UNCHANGED <<now, mesh, userConfig, config, conns, seen, rudeIps, cache, rep,
                 vtimer, posts, nextConn, nextMsg, wire, last, msgCount,
                 evictCount, own, judged, heard, board, sg, cx, sc, rp, vheard, flying, bh>>

(***************************************************************************)
(* SpecRudeList: messages of two addresses are registered, the clock       *)
(* advances and isRude is asked, in any order.                             *)
(***************************************************************************)
RudeListAddresses == {2, 3}
RudeListClockSteps == {RateWindow \div 2, RateWindow \div 2 + 1}
RudeListMaxNow == StartTime + RateWindow + 1

NextRudeList ==
  \/ \E a \in RudeListAddresses : RegisterMessage(a)
  \/ \E a \in RudeListAddresses : AskIsRude(a)
  \/ \E d \in RudeListClockSteps : AdvanceClock(d, RudeListMaxNow)

SpecRudeList == Init /\ [][NextRudeList]_vars

\* The messages of `address` registered in the 1000 ms up to time `at`.
RegisteredInWindow(address, at) ==
  {i \in DOMAIN RudeListEvents(rl.events, address) :
     at - RudeListEvents(rl.events, address)[i] <= RateWindow}

\* C6: isRude(address) returns true exactly when more than maxMessageRate
\* messages of the address were registered in the last 1000 ms; so it returns
\* false again once all of the address's timestamps are older than that.
C6_RudeIsSlidingWindow ==
  (rl.asked # NoClient /\ rl.at = now) =>
    (rl.verdict <=>
       Cardinality(RegisteredInWindow(rl.asked, rl.at)) > MaxMessageRate)


(***************************************************************************)
(* SpecHeal: A = 1 and B = 2 are connected and A's switchboard requester   *)
(* is stopped; C = 3 has joined and negotiated a connection with B whose   *)
(* transport reports `connect` on C's side.  From then on only in-band     *)
(* traffic runs: A's and C's offer-broadcast intervals, the transports'    *)
(* `signal` and `connect` events, and delivery of payloads.  A transport   *)
(* reports `connect` only when the remote end of the same negotiation has  *)
(* been given this end's description.                                      *)
(***************************************************************************)
\* A link whose two ends share the offer's connectionId.
HealLink(id, connectionId, self, peer, isConnected) ==
  [Link(id, self, peer, id = connectionId, isConnected)
     EXCEPT !.connectionId = connectionId]

\* The open connection a node's switchboard requests made, its offer ready.
HealOpen(id, self) ==
  [NewConnection(id, TRUE, id) EXCEPT !.sdp = IpOf(self)]

HealLine ==
  [n \in Nodes |->
     CASE n = 1 -> <<HealLink(1, 1, 1, 2, TRUE), HealOpen(5, 1)>>
       [] n = 2 -> <<HealLink(2, 1, 2, 1, TRUE), HealLink(3, 3, 2, 3, TRUE),
                     HealOpen(6, 2)>>
       [] n = 3 -> <<HealLink(4, 3, 3, 2, FALSE), HealOpen(7, 3)>>
       [] OTHER -> <<>>]

HealFirstConn == 8
HealLastConnId == 9    \* two connections are created after the initial ones
HealLastMsgId == FirstMsgId + 3   \* four messages are originated

\* The remote end of connection id of node n holds both descriptions: it was
\* created from (or has been signalled) this end's description.
Negotiated(n, id) ==
  LET c == ConnOf(n, id)
  IN /\ c.clientId \in mesh
     /\ \E d \in Range(conns[c.clientId]) :
          /\ d.clientId = n /\ d.connectionId = c.connectionId
          /\ d.sdp # NoSdp /\ d.remoteSdp # NoSdp /\ ~d.destroyed

HealConnect(n, id, maxMsg) ==
  /\ n \in mesh /\ id \in ConnIdsOf(n)
  /\ Negotiated(n, id)
  /\ PeerConnect(n, id, maxMsg)

InitHeal ==
  /\ now = StartTime
  /\ mesh = {1, 2, 3}
  /\ InitNodes([n \in Nodes |-> <<>>], HealLine, HealFirstConn)
  /\ board = NoBoard

\* A's user stops A's switchboard requester.
HealStop ==
  /\ rep[1].on
  /\ Apply(1, RepeaterStop(St(1)), "stop", 0)
  /\ wire' = wire

NextHeal ==
  \/ HealStop
  \/ /\ ~rep[1].on
     /\ \/ \E n \in {1, 3} : OfferBroadcastTick(n, HealLastConnId, HealLastMsgId)
        \/ \E n \in Nodes, id \in 1..HealLastConnId : PeerSignal(n, id, HealLastMsgId)
        \/ \E n \in Nodes, id \in 1..HealLastConnId : HealConnect(n, id, HealLastMsgId)
        \/ \E w \in wire : Deliver(w, HealLastMsgId)

SpecHeal == InitHeal /\ [][NextHeal]_vars

\* Node n holds a connected Connection bound to client c.
ConnectedTo(n, c) == \E x \in Range(conns[n]) : x.clientId = c /\ x.connected

\* A transport event of connection c of node n is still to come: its local
\* description, or its `connect`.
TransportPending(n, c) ==
  \/ c.sdp = NoSdp /\ ~c.destroyed /\ (c.initiator \/ c.remoteSdp # NoSdp)
  \/ /\ ~c.connected /\ ~c.destroyed
     /\ c.sdp # NoSdp /\ c.remoteSdp # NoSdp /\ c.clientId # NoClient
     /\ Negotiated(n, c.id)

\* Every payload was delivered and every transport event has happened.
Settled ==
  /\ wire = {}
  /\ \A n \in mesh : \A c \in Range(conns[n]) : ~TransportPending(n, c)

\* C11: with A and B connected, A's switchboard requests stopped and C
\* connected to B, C and A come to hold a connected Connection to each other,
\* negotiated through the offer and answer messages B relays: once C has
\* handled A's answer message to its offer and the transports have settled,
\* the two are connected.
C11_HealedOnceAnswered ==
  ((\E h \in heard[3] : h.clientId = 1) /\ Settled)
    => (ConnectedTo(3, 1) /\ ConnectedTo(1, 3))


\* C25: the `answer` message a node broadcasts once the responder
\* Connection it made for an in-band offer has its sdp is addressed to the
\* offerer and carries in its data (which the recipient's answer handler
\* reads) the answerer's address, the offer's connectionId and the answer
\* sdp; the offerer that has handled it holds its open Connection bound.
C25_AnswerMessageIsUsable ==
  /\ \A i \in DOMAIN last.bc :
       LET m == last.bc[i].msg
       IN (m.appId = APP_ID /\ m.type = "answer" /\ m.hop = 0) =>
            /\ m.destination \in mesh \ {m.clientId}
            /\ m.data.clientId = m.clientId
            /\ m.data.connectionId # 0
            /\ m.data.sdp # NoSdp
  /\ \A n \in mesh : \A h \in heard[n] : \A c \in Range(conns[n]) :
       c.id = h.connectionId => c.clientId # NoClient

\* C26: a node emits `message`, and applies the handling of the network's
\* control messages, only for messages whose destination is `*` or its own
\* address: receiving a message addressed to another node emits no
\* `message` event and hands no answer to the answer handler (the message
\* is only forwarded).
C26_OnlyAddresseesDispatch ==
  [][\A w \in wire :
       (Deliver(w, HealLastMsgId) /\ w.msg.destination \notin {Star, w.to}
          /\ last' # last) =>
         /\ MessageEventIds(last'.ev) = {}
         /\ heard'[w.to] = heard[w.to]]_vars

(***************************************************************************)
(* SpecBoot: three nodes constructed with the same networkId against a     *)
(* working switching service.  Every node holds the open connection its    *)
(* first request made; requests are POSTed by the requesters' ticks, the   *)
(* service answers each with its book, transports signal, connect and      *)
(* (when the other end took another answer) close, payloads are delivered. *)
(***************************************************************************)
BootStart == [n \in Nodes |-> <<HealOpen(n, n)>>]
BootFirstConn == NumNodes + 1
BootLastConnId == BootFirstConn + 11
BootLastMsgId == FirstMsgId + 6
BootTicks == 5

\* The book the service returns to node n: the other clients' offers and the
\* answers to node n's connections.
BookFor(n) ==
  {x \in board.items :
     \/ x.type = "offer" /\ x.clientId # n
     \/ x.type = "answer" /\ x.connectionId \in ConnIdsOf(n)}

RECURSIVE BookIn(_)
\* A book as the array the response carries, in one of its orders.
BookIn(items) ==
  IF items = {} THEN <<>>
  ELSE LET rank(y) == (IF y.type = "offer" THEN 0 ELSE 1000)
                        + 100 * y.clientId + y.connectionId
           x == CHOOSE y \in items : \A z \in items : rank(y) <= rank(z)
       IN <<x>> \o BookIn(items \ {x})

Reverse(s) == [i \in DOMAIN s |-> s[Len(s) + 1 - i]]

BootBooks(n) ==
  {[ok |-> TRUE, items |-> b] : b \in {BookIn(BookFor(n)), Reverse(BookIn(BookFor(n)))}}

\* The offerer bound the offer this responder answered to another client,
\* or dropped it: the responder's transport fails and closes.
Jilted(n, c) ==
  /\ ~c.initiator /\ ~c.connected /\ ~c.destroyed /\ c.sdp # NoSdp
  /\ c.clientId \in mesh
  /\ ~\E d \in Range(conns[c.clientId]) :
        d.id = c.connectionId /\ d.clientId \in {NoClient, n}

BootClose(n, id) ==
  /\ n \in mesh /\ id \in ConnIdsOf(n)
  /\ Jilted(n, ConnOf(n, id))
  /\ PeerClose(n, id)

Receivable(w) ==
  \/ ConnectedTo(w.to, w.from)
  \/ ~\E c \in Range(conns[w.to]) : c.clientId = w.from

\* A payload is received once the receiving end's channel is open.
BootDeliver(w, maxMsg) ==
  /\ w \in wire
  /\ Receivable(w)
  /\ Deliver(w, maxMsg)

InitBoot ==
  /\ now = StartTime
  /\ mesh = Nodes
  /\ InitNodes([n \in Nodes |-> <<>>], BootStart, BootFirstConn)
  /\ board = [on |-> TRUE, items |-> {}]

\* Transport events and deliveries take no time compared with the requests
\* to the switching service, and a response arrives before the next request:
\* deliveries and transport events come first, then the response to a
\* pending request, then the close of a failed transport, then a tick.
\* The requesters were started one after the other with the same interval
\* (Repeater.ts), so their ticks come in turn.
Busy ==
  \/ \E w \in wire : Receivable(w)
  \/ \E n \in mesh : \E c \in Range(conns[n]) : TransportPending(n, c)

NextBoot ==
  \/ \E w \in wire : BootDeliver(w, BootLastMsgId)
  \/ \E n \in Nodes, id \in 1..BootLastConnId : PeerSignal(n, id, BootLastMsgId)
  \/ \E n \in Nodes, id \in 1..BootLastConnId : HealConnect(n, id, BootLastMsgId)
  \/ /\ ~Busy
     /\ \E n \in Nodes : \E book \in BootBooks(n) :
          SwitchboardResponse(n, book, BootLastConnId)
  \/ /\ ~Busy /\ \A m \in Nodes : posts[m] = 0
     /\ \E n \in Nodes, id \in 1..BootLastConnId : BootClose(n, id)
  \/ /\ ~Busy /\ \A m \in Nodes : posts[m] = 0
     /\ ~\E m \in Nodes : \E c \in Range(conns[m]) : Jilted(m, c)
     /\ \E n \in Nodes :
          /\ \A m \in Nodes : \/ rep[n].iteration < rep[m].iteration
                             \/ (rep[n].iteration = rep[m].iteration /\ n <= m)
          /\ RepeaterTick(n, BootLastConnId, BootLastMsgId, BootTicks)

SpecBoot == InitBoot /\ [][NextBoot]_vars

\* Nothing is left to happen but requests that change nothing: payloads
\* and transports have settled, no transport is failing, every node's open
\* offer is on the service's book, and no node accepts anything in its book.
BootDone ==
  /\ Settled
  /\ \A n \in mesh :
       /\ posts[n] = 0
       /\ \A c \in Range(conns[n]) : ~Jilted(n, c)
       /\ \E c \in Range(conns[n]) :
            /\ c.clientId = NoClient /\ c.sdp # NoSdp
            /\ Negotiation("offer", n, c.id, c.sdp) \in board.items
       /\ \A book \in BootBooks(n) : HandleBook(St(n), book.items).conns = conns[n]

FirstAnswerFor(st, items, id) ==
  FindFirst(items, LAMBDA a : /\ a.type = "answer" /\ a.connectionId = id
                              /\ a.sdp # NoSdp
                              /\ ~isRude(st, getIpFromRTCSDP(a.sdp)))

\* C24: an answer is applied only to the Connection whose id is the
\* answer's connectionId and only while that Connection has no remote
\* address.  A Connection that has a remote address keeps it, and its
\* transport is signalled nothing more, whatever answers arrive later; a
\* Connection without one is bound, and its transport signalled, only by a
\* response, to the first answer in it that names the Connection's id;
\* answers that name no Connection of the node change nothing.
C24_FirstAnswerWins ==
  [][\A n \in mesh : \A c \in Range(conns[n]) : \A d \in Range(conns'[n]) :
       d.id = c.id =>
         /\ c.clientId # NoClient =>
              (d.clientId = c.clientId /\ d.remoteSdp = c.remoteSdp)
         /\ (c.clientId = NoClient /\ c.initiator
               /\ ~(last'.op = "switchboardResponse" /\ last'.node = n
                      /\ posts'[n] # posts[n])) =>
              (d.clientId = NoClient /\ d.remoteSdp = c.remoteSdp)
         /\ (c.clientId = NoClient /\ c.initiator
               /\ last'.op = "switchboardResponse" /\ last'.node = n
               /\ posts'[n] # posts[n]) =>
              \A book \in BootBooks(n) :
                SwitchboardResponse(n, book, BootLastConnId) =>
                  LET i == FirstAnswerFor(St(n), book.items, c.id)
                  IN IF i = 0
                     THEN d.clientId = NoClient /\ d.remoteSdp = c.remoteSdp
                     ELSE /\ d.clientId = book.items[i].clientId
                          /\ d.remoteSdp = book.items[i].sdp]_vars

\* C24 witness: the response a node handled last carried two clients'
\* answers to the same open connection, which is bound to one of them.
C24_SecondAnswerIgnored ==
  /\ last.op = "switchboardResponse"
  /\ \E a, b \in BookFor(last.node) :
       /\ a.type = "answer" /\ b.type = "answer"
       /\ a.connectionId = b.connectionId /\ a.clientId # b.clientId
       /\ \E c \in Range(conns[last.node]) :
            c.id = a.connectionId /\ c.clientId = a.clientId

(***************************************************************************)
(* SpecRestore: three connected nodes, each with its open offer on the     *)
(* switching service's book.  The node with address X = 3 is torn down and *)
(* a new node is constructed with the same address and config, as the      *)
(* teardown test does in one synchronous step; the two peers keep running. *)
(* The peers' transports to the old node close at any later moment.        *)
(***************************************************************************)
RestoreMesh ==
  [n \in Nodes |->
     CASE n = 1 -> <<HealLink(1, 1, 1, 2, TRUE), HealLink(3, 3, 1, 3, TRUE),
                     HealOpen(7, 1)>>
       [] n = 2 -> <<HealLink(2, 1, 2, 1, TRUE), HealLink(5, 5, 2, 3, TRUE),
                     HealOpen(8, 2)>>
       [] n = 3 -> <<HealLink(4, 3, 3, 1, TRUE), HealLink(6, 5, 3, 2, TRUE),
                     HealOpen(9, 3)>>
       [] OTHER -> <<>>]

RestoreFirstConn == 10
RestoreLastConnId == RestoreFirstConn + 11
RestoreLastMsgId == FirstMsgId + 8
RestoreTicks == 6

\* teardown(): stops the switchboard requester and the timers, destroys all
\* Connections, clears the listeners; results of requests in flight are
\* discarded.
\* A teardown that leaves the requests in flight to resolve as usual.
teardownLeaky(st) ==
  [RepeaterStop(st) EXCEPT !.conns = <<>>, !.vtimer = FALSE, !.vheard = {}]

teardown(st) ==
  [RepeaterStop(st) EXCEPT !.conns = <<>>, !.vtimer = FALSE, !.vheard = {},
                           !.posts = 0]

\* network.teardown() followed by new Network({address, networkId, config}).
Restore(n) ==
  /\ n \in mesh
  /\ \E c \in Range(conns[n]) : c.id < RestoreFirstConn
  /\ LET down == teardown(St(n))
         st == beginSwitchboardRequestPeriod(
                 [Blank(n, down.cfg) EXCEPT !.nextConn = down.nextConn,
                                            !.nextMsg = down.nextMsg,
                                            !.conns = down.conns,
                                            !.rep = down.rep,
                                            !.vtimer = down.vtimer,
                                            !.vheard = down.vheard,
                                            !.flying = down.flying,
                                            !.posts = down.posts])
     IN /\ Apply(n, st, "restore", 0)
        /\ wire' = {w \in Transmit(st) : w.to # n}

Restored == \A c \in Range(conns[3]) : c.id >= RestoreFirstConn

\* Connection c of node n is connected to a transport its peer destroyed.
Severed(n, c) ==
  /\ c.connected /\ ~c.destroyed /\ c.clientId \in mesh
  /\ ~\E d \in Range(conns[c.clientId]) :
        d.clientId = n /\ d.connectionId = c.connectionId

RestoreClose(n, id) ==
  /\ n \in mesh /\ id \in ConnIdsOf(n)
  /\ Severed(n, ConnOf(n, id))
  /\ PeerClose(n, id)

InitRestore ==
  /\ now = StartTime
  /\ mesh = Nodes
  /\ InitNodes([n \in Nodes |-> <<>>], RestoreMesh, RestoreFirstConn)
  /\ board = [on |-> TRUE,
              items |-> {Negotiation("offer", n, 6 + n, IpOf(n)) : n \in Nodes}]

NextRestore ==
  \/ Restore(3)
  \/ /\ Restored
     \* payloads are received one at a time, in a fixed order
     /\ \/ /\ \E w \in wire : Receivable(w)
           /\ BootDeliver(CHOOSE w \in wire : Receivable(w), RestoreLastMsgId)
        \/ \E n \in Nodes, id \in 1..RestoreLastConnId :
             PeerSignal(n, id, RestoreLastMsgId)
        \/ \E n \in Nodes, id \in 1..RestoreLastConnId :
             HealConnect(n, id, RestoreLastMsgId)
        \/ /\ ~Busy
           /\ \E n \in Nodes : \E book \in BootBooks(n) :
                SwitchboardResponse(n, book, RestoreLastConnId)
        \/ /\ ~Busy /\ \A m \in Nodes : posts[m] = 0
           /\ \E n \in Nodes, id \in 1..RestoreLastConnId :
                BootClose(n, id) \/ RestoreClose(n, id)
        \/ /\ ~Busy /\ \A m \in Nodes : posts[m] = 0
           /\ ~\E m \in Nodes : \E c \in Range(conns[m]) : Jilted(m, c)
           /\ \E n \in Nodes :
                /\ \A m \in Nodes : \/ rep[n].iteration < rep[m].iteration
                                   \/ (rep[n].iteration = rep[m].iteration /\ n <= m)
                /\ RepeaterTick(n, RestoreLastConnId, RestoreLastMsgId, RestoreTicks)

SpecRestore == InitRestore /\ [][NextRestore]_vars

\* The restoring has run its course: as BootDone, with the new node
\* constructed and no transport to the old node left open.
RestoreDone ==
  /\ Restored /\ BootDone
  /\ \A n \in mesh : \A c \in Range(conns[n]) : ~Severed(n, c)

UserTeardown(n) ==
  /\ n \in mesh
  /\ LET st == teardown(St(n))
     IN Apply(n, st, "teardown", posts[n]) /\ wire' = Transmit(st)

NextDown ==
  \/ UserTeardown(Self)
  \/ rep[Self].on /\ OfferBroadcastTick(Self, MaxConnIds, LastMsgId)
  \/ rep[Self].on /\ GarbageCollectTick(Self)
  \/ RepeaterTick(Self, MaxConnIds, LastMsgId, MaxTicks)
  \/ VolunteerTimeout(Self, LastMsgId)
  \/ \E book \in Books : SwitchboardResponse(Self, book, MaxConnIds)
  \/ \E id \in 1..MaxConnIds : PeerSignal(Self, id, LastMsgId)
  \/ \E id \in 1..MaxConnIds : PeerConnect(Self, id, LastMsgId)
  \/ \E id \in 1..MaxConnIds : PeerClose(Self, id)
  \/ \E id \in 1..MaxConnIds, m \in EnvMessages :
       /\ Len(cache[Self][IpOf(Self)]) < MaxData
       /\ PeerData(Self, id, TRUE, m, LastMsgId)

SpecDown == Init /\ [][NextDown]_vars

\* In SpecDown the requester is off with no volunteer timeout pending only
\* after teardown(): a volunteer message stops it and sets the timeout.
\* C14: after teardown() has returned the node makes no further request to
\* the switching service and emits no further event, whatever timers were
\* pending and requests in flight, and a further teardown() changes nothing.
C14_QuietAfterTeardown ==
  [][\A n \in mesh : (~rep[n].on /\ ~vtimer[n]) =>
        /\ (last' # last /\ last'.node = n) =>
             (last'.ev = <<>> /\ last'.sw = <<>> /\ last'.bc = <<>>)
        /\ conns'[n] = conns[n] /\ rep'[n] = rep[n]
        /\ posts'[n] = posts[n] /\ vtimer'[n] = vtimer[n]]_vars

\* C14 witness: teardown() was called with a request in flight and has
\* returned.
C14_TornDownInFlight ==
  /\ last.op = "teardown" /\ last.arg > 0
  /\ ~rep[last.node].on /\ conns[last.node] = <<>>

(***************************************************************************)
(* SpecFull: nodes 1 and 2 run with maxConnections = 2 and each holds two  *)
(* connected Connections, one to the other and one to a client 4 of the    *)
(* environment; node 3 joins with the same networkId.  Requesters tick,    *)
(* the switching service answers, transports signal.                      *)
(***************************************************************************)
FullClient == NumNodes + 1
FullNodes == {1, 2}
FullMesh ==
  [n \in Nodes |->
     CASE n = 1 -> <<HealLink(1, 1, 1, 2, TRUE), HealLink(3, 3, 1, FullClient, TRUE)>>
       [] n = 2 -> <<HealLink(2, 1, 2, 1, TRUE), HealLink(4, 4, 2, FullClient, TRUE)>>
       [] OTHER -> <<>>]

FullFirstConn == 5
FullLastConnId == FullFirstConn + 4
FullTicks == 3

InitFull ==
  /\ now = StartTime
  /\ mesh = Nodes
  /\ InitNodes([n \in Nodes |-> IF n \in FullNodes
                                THEN [maxConnections |-> UserMaxConnections]
                                ELSE <<>>],
               FullMesh, FullFirstConn)
  /\ board = [on |-> TRUE, items |-> {}]

NextFull ==
  \/ \E n \in Nodes : RepeaterTick(n, FullLastConnId, LastMsgId, FullTicks)
  \/ \E n \in Nodes, id \in 1..FullLastConnId : PeerSignal(n, id, LastMsgId)
  \/ \E n \in Nodes : \E book \in BootBooks(n) :
       SwitchboardResponse(n, book, FullLastConnId)

SpecFull == InitFull /\ [][NextFull]_vars

\* C15: a node whose connection count has reached maxConnections creates no
\* new Connection and hands the switching service no offer or answer that a
\* newly joined node is given: the newcomer's responses hold no negotiation
\* of a full node.
C15_FullNodesIgnoreNewcomer ==
  \A n \in FullNodes :
    /\ Len(conns[n]) <= config[n].maxConnections
    /\ ~\E x \in BookFor(3) : x.clientId = n

(***************************************************************************)
(* The gossip engine of a node with signing enabled.  A signature is the   *)
(* pair of the signing key and what was signed: the message's fields and   *)
(* the signatures it carried when it was signed.                           *)
(***************************************************************************)
SignedFields == {"id", "address", "appId", "ttl", "type", "destination", "data"}

canonical(m) ==
  <<m.id, m.address, m.appId, m.ttl, m.type, m.destination, m.data, m.signatures>>

sign(secret, m) ==
  [signer |-> secret, signature |-> [key |-> secret, over |-> canonical(m)]]

\* What a hop does to forward: signs the message as it has it, appends.
Signed(m, signer) == [m EXCEPT !.signatures = Append(@, sign(signer, m))]

\* A verification that looks at the last hop's signature only.
VerifyLastHop(m, k) ==
  k = 0 \/ m.signatures[k] = sign(m.signatures[k].signer,
                                  [m EXCEPT !.signatures = SubSeq(@, 1, k - 1)])

RECURSIVE VerifyTail(_, _)
\* Pops the signatures from the tail, verifying each against the message
\* that remains; the originator's is the last and must be of m.address.
VerifyTail(m, k) ==
  IF k = 0 THEN TRUE
  ELSE LET rest == [m EXCEPT !.signatures = SubSeq(@, 1, k - 1)]
           s == m.signatures[k]
       IN /\ s = sign(s.signer, rest)
          /\ (k = 1 => s.signer = m.address)
          /\ VerifyTail(m, k - 1)

Verify(m) == Len(m.signatures) > 0 /\ VerifyTail(m, Len(m.signatures))

SgEmit(g, type, id) == [g EXCEPT !.ev = Append(@, [type |-> type, id |-> id])]

\* What ingest does with a message it has not seen, once the id is recorded.
Dispatch(g, self, m) ==
  IF ~Verify(m) THEN SgEmit(g, "bad-message", m.id)
  ELSE LET g2 == IF Len(m.signatures) < m.ttl
                 THEN [g EXCEPT !.out = @ \cup {Signed(m, self)}] ELSE g
       IN IF m.destination \in {Star, self}
          THEN SgEmit(g2, "message", m.id) ELSE g2

\* An ingest that does not look at the seen memory.
IngestForgetful(g, self, m) == Dispatch(g, self, m)

\* ingest of a message of an application: drop a seen id, record the id,
\* verify, rebroadcast while the chain is shorter than ttl, emit `message`
\* if the message is addressed to this node or to everyone.
Ingest(g, self, m) ==
  IF m.id \in g.seen THEN g
  ELSE Dispatch([g EXCEPT !.seen = @ \cup {m.id}], self, m)

(***************************************************************************)
(* SpecSign: node 1 hears, over its connection to node 3, messages that    *)
(* node 2 originated and node 3 forwarded: one as it was, one with a field *)
(* changed by node 3 (which signs what it forwards, or does not), one      *)
(* without signatures and one with a signature of an unknown signer.       *)
(***************************************************************************)
SignMaxEvents == 3
SignMaxHeard == 3
Bogus == 9

Original(id) ==
  Signed([id |-> id, address |-> 2, appId |-> "app", type |-> "hello", ttl |-> 3,
          destination |-> Star, data |-> 0, signatures |-> <<>>], 2)

\* The message with field f changed.
Changed(m, f) ==
  CASE f = "id" -> [m EXCEPT !.id = 3]
    [] f = "address" -> [m EXCEPT !.address = 3]
    [] f = "appId" -> [m EXCEPT !.appId = "other"]
    [] f = "ttl" -> [m EXCEPT !.ttl = 6]
    [] f = "type" -> [m EXCEPT !.type = "bye"]
    [] f = "destination" -> [m EXCEPT !.destination = 1]
    [] f = "data" -> [m EXCEPT !.data = 1]

SignInbox ==
  {[kind |-> "forwarded", msg |-> Signed(Original(2), 3)]}
  \cup {[kind |-> "changed", msg |-> Changed(Original(1), f)] : f \in SignedFields}
  \cup {[kind |-> "changed", msg |-> Signed(Changed(Original(1), f), 3)] :
          f \in SignedFields}
  \cup {[kind |-> "bad", msg |-> [Original(4) EXCEPT !.signatures = <<>>]],
        [kind |-> "bad",
         msg |-> [Original(5) EXCEPT
                    !.signatures = <<[signer |-> Bogus,
                                      signature |-> [key |-> Bogus, over |-> <<>>]]>>]]}

\* The connection's `data` event with payload x; got records what arrived.
SignData(x) ==
  /\ Len(sg.ev) < SignMaxEvents /\ Cardinality(sg.got) < SignMaxHeard
  /\ sg' = [Ingest(sg, Self, x.msg) EXCEPT !.got = @ \cup {x}]
  /\ UNCHANGED <<now, mesh, userConfig, config, conns, seen, rudeIps, cache, rep,
                 vtimer, posts, nextConn, nextMsg, wire, last, msgCount,
                 evictCount, own, judged, heard, board, cx, sc, rp, vheard, flying, bh, rl>>

NextSign == \E x \in SignInbox : SignData(x)

SpecSign == Init /\ [][NextSign]_vars

SgEvents(type, id) == {i \in DOMAIN sg.ev : sg.ev[i] = [type |-> type, id |-> id]}

PartialMessages ==
  {Hello, [appId |-> "app", data |-> NoData], [type |-> "hello", data |-> NoData],
   [data |-> NoData]}

ShapeLastMsgId == FirstMsgId + 1

NextShape ==
  \E n \in Nodes, um \in PartialMessages : UserBroadcast(n, um, ShapeLastMsgId)

SpecShape == InitGossip /\ [][NextShape]_vars

\* C18: broadcast() called without `type` or without `appId` reports the
\* violation to its caller synchronously; nothing is sent to any peer, no id
\* is recorded in the seen memory and no `broadcast-message` event is
\* emitted.
C18_PartialBroadcastRefused ==
  (last.op = "broadcast" /\ ~({"type", "appId"} \subseteq DOMAIN last.arg)) =>
    /\ last.threw
    /\ \A i \in DOMAIN last.bc :
         last.bc[i].sentTo = {} /\ last.bc[i].msg.id \notin DOMAIN seen[last.node]
    /\ last.ev = <<>>

(***************************************************************************)
(* SpecSweep: the gossip line with a clock that stops at four times, so    *)
(* that ids are swept at the ages 0, 1, MEMORY_DURATION - 1,               *)
(* MEMORY_DURATION and MEMORY_DURATION + 1.                                *)
(***************************************************************************)
SweepClockSteps == {1, MEMORY_DURATION - 1, MEMORY_DURATION}
SweepMaxNow == StartTime + MEMORY_DURATION + 1
SweepTimes == {StartTime, StartTime + 1, StartTime + MEMORY_DURATION, SweepMaxNow}

NextSweep ==
  \/ UserBroadcast(1, Hello, GossipLastMsgId)
  \/ \E w \in wire : Deliver(w, GossipLastMsgId + 1)
  \/ \E n \in {1, 2} : GarbageCollectTick(n)
  \/ \E d \in SweepClockSteps : now + d \in SweepTimes /\ AdvanceClock(d, SweepMaxNow)

SpecSweep == InitGossip /\ [][NextSweep]_vars

\* C19: a garbage-collection sweep leaves no id in the seen memory that was
\* recorded more than the memory duration (60 s) ago, and every id recorded
\* within the memory duration is still reported as seen, with its time.
C19_SweepKeepsFreshDropsOld ==
  [][last'.op = "garbageCollect" /\ last' # last =>
       LET n == last'.node
       IN \A id \in DOMAIN seen[n] :
            IF now - seen[n][id] > MEMORY_DURATION
            THEN id \notin DOMAIN seen'[n]
            ELSE id \in DOMAIN seen'[n] /\ seen'[n][id] = seen[n][id]]_vars

\* C19 witness: a sweep has dropped an id and kept one that is exactly the
\* memory duration old.
C19_SweptAtTheBoundary ==
  /\ last.op = "garbageCollect"
  /\ \E id \in DOMAIN evictCount[last.node] : evictCount[last.node][id] > 0
  /\ \E id \in DOMAIN seen[last.node] : now - seen[last.node][id] = MEMORY_DURATION


(***************************************************************************)
(* SpecConn: one Connection of the later class is constructed, as an       *)
(* initiator or for a supplied offer; its transport signals, is answered,  *)
(* connects and closes or errors, and the owner reads `state` at any time. *)
(***************************************************************************)
ConnReads == 4         \* reads of `state` that are recorded

ConnNew(suppliedSdp) ==
  /\ ~cx.made
  /\ cx' = ConnectionNew(suppliedSdp)

\* The transport delivers the local description: an offer for an
\* initiator, an answer for a responder that was signalled the offer.
ConnSignal ==
  /\ cx.made /\ ~cx.peer.destroyed
  /\ IF cx.initiator THEN cx.offerSdp = NoSdp
     ELSE cx.peer.remote /\ cx.answer.sdp = NoSdp
  /\ cx' = ConnectionOnSignal(cx, IF cx.initiator THEN "offer" ELSE "answer",
                              IpOf(1))

\* The network hands the open connection the answer of another node.
ConnAnswer ==
  /\ cx.made /\ ~cx.peer.destroyed
  /\ cx.initiator /\ cx.offerSdp # NoSdp /\ ~cx.answer.present
  /\ cx' = handleAnswerNegotiation(cx, IpOf(2))

\* The transport's connect event: both descriptions are set.
ConnConnect ==
  /\ cx.made /\ ~cx.peer.destroyed /\ ~cx.peer.connected
  /\ cx.peer.remote
  /\ IF cx.initiator THEN cx.offerSdp # NoSdp ELSE cx.answer.sdp # NoSdp
  /\ cx' = [cx EXCEPT !.peer.connected = TRUE]

\* The transport closes or errors: it is destroyed and no longer connected.
ConnClose ==
  /\ cx.made /\ ~cx.peer.destroyed
  /\ cx' = [cx EXCEPT !.peer.connected = FALSE, !.peer.destroyed = TRUE]

ConnRead ==
  /\ cx.made /\ Len(cx.reported) < ConnReads
  /\ cx' = [cx EXCEPT !.reported = Append(@, state(cx))]

NextConn ==
  /\ \/ \E suppliedSdp \in {NoSdp, IpOf(2)} : ConnNew(suppliedSdp)
     \/ ConnSignal
     \/ ConnAnswer
     \/ ConnConnect
     \/ ConnClose
     \/ ConnRead
  /\ UNCHANGED <<now, mesh, userConfig, config, conns, seen, rudeIps, cache, rep,
                 vtimer, posts, nextConn, nextMsg, wire, last, msgCount,
                 evictCount, own, judged, heard, board, sg, sc, rp, vheard, flying, bh, rl>>

SpecConn == Init /\ [][NextConn]_vars

StateRank(x) == CASE x = "pending" -> 1 [] x = "open" -> 2 [] x = "connected" -> 3
                  [] OTHER -> 4

\* C21: the state a Connection reports only moves forward (pending, open,
\* connected, then dead): a Connection that has reported connected never
\* reports open or pending again after its transport closes or errors.
C21_StateOnlyMovesForward ==
  \A i, j \in DOMAIN cx.reported :
    i < j => StateRank(cx.reported[i]) <= StateRank(cx.reported[j])


(***************************************************************************)
(* SpecCrypt: a Connection of the revision with encryption, in plain and   *)
(* in encrypted mode; in encrypted mode the remote descriptions arrive     *)
(* encrypted.                                                              *)
(***************************************************************************)
RemoteSdp(secret) == IF secret THEN Encrypt(IpOf(2)) ELSE IpOf(2)

CryptNew(secret, suppliedSdp) ==
  /\ ~cx.made
  /\ cx' = ConnectionNewSecret(secret, suppliedSdp)

CryptSignal ==
  /\ cx.made /\ ~cx.peer.destroyed
  /\ IF cx.initiator THEN cx.offerSdp = NoSdp
     ELSE cx.peer.remote /\ cx.answer.sdp = NoSdp
  /\ cx' = ConnectionOnSignalSecret(cx, IF cx.initiator THEN "offer" ELSE "answer",
                                    IpOf(1))

CryptAnswer ==
  /\ cx.made /\ ~cx.peer.destroyed
  /\ cx.initiator /\ cx.offerSdp # NoSdp /\ ~cx.answer.present
  /\ cx' = handleAnswerNegotiationSecret(cx, RemoteSdp(cx.secret))

NextCrypt ==
  /\ \/ \E secret \in BOOLEAN, supplied \in BOOLEAN :
          CryptNew(secret, IF supplied THEN RemoteSdp(secret) ELSE NoSdp)
     \/ CryptSignal
     \/ CryptAnswer
     \/ ConnConnect
     \/ ConnClose
     \/ ConnRead
  /\ UNCHANGED <<now, mesh, userConfig, config, conns, seen, rudeIps, cache, rep,
                 vtimer, posts, nextConn, nextMsg, wire, last, msgCount,
                 evictCount, own, judged, heard, board, sg, sc, rp, vheard,
                 flying, bh, rl>>

SpecCrypt == Init /\ [][NextCrypt]_vars

\* C38: in encrypted mode, after a Connection handled a received answer,
\* the answer kept on the Connection holds the sdp in its encrypted form as
\* received, and only the copy handed to the transport's signal input is
\* decrypted.
C38_StoredAnswerStaysEncrypted ==
  (cx.secret /\ cx.initiator /\ cx.answer.present) =>
    /\ cx.answer.sdp = cx.received
    /\ cx.signalled = Decrypt(cx.received)

(***************************************************************************)
(* SpecFactory: a Connection is made by ConnectionFactory.new; its         *)
(* transport signals the local description, is answered, connects, and     *)
(* closes or errors at any time, also before it has signalled.             *)
(***************************************************************************)
FactoryNew(secret, suppliedSdp) ==
  /\ ~cx.made
  /\ cx' = ConnectionFactoryNew(secret, suppliedSdp)

\* The signal listener stores the description and emits 'state-change'.
FactorySignal ==
  /\ cx.made /\ ~cx.peer.destroyed
  /\ IF cx.initiator THEN cx.offerSdp = NoSdp
     ELSE cx.peer.remote /\ cx.answer.sdp = NoSdp
  /\ cx' = emitStateChange(
             ConnectionOnSignalSecret(cx, IF cx.initiator THEN "offer"
                                          ELSE "answer", IpOf(1)))

NextFactory ==
  /\ \/ \E secret \in BOOLEAN, supplied \in BOOLEAN :
          FactoryNew(secret, IF supplied THEN RemoteSdp(secret) ELSE NoSdp)
     \/ FactorySignal
     \/ CryptAnswer
     \/ ConnConnect
     \/ ConnClose
     \/ ConnRead
  /\ UNCHANGED <<now, mesh, userConfig, config, conns, seen, rudeIps, cache, rep,
                 vtimer, posts, nextConn, nextMsg, wire, last, msgCount,
                 evictCount, own, judged, heard, board, sg, sc, rp, vheard,
                 flying, bh, rl>>

SpecFactory == Init /\ [][NextFactory]_vars

\* C40: the promise returned by ConnectionFactory.new always eventually
\* settles, also when the transport closes or errors before producing any
\* offer/answer signal, and the Connection it resolves with is no longer
\* pending.  A destroyed transport signals nothing more, so the promise of
\* a Connection whose transport is destroyed has settled.
C40_FactoryPromiseSettles ==
  /\ (cx.promise # "none" /\ cx.peer.destroyed) => cx.promise = "resolved"
  /\ cx.promise = "resolved" => ~isPending(cx)

(***************************************************************************)
(* SpecCadence: the nodes of the line 1 - 2 - 3 run the adaptive client.   *)
(* Node 1 starts with one active Connection and can lose it; node 3's      *)
(* Connection connects and can close.  The clock moves to the time the     *)
(* next task is due, and a due task ticks.                                 *)
(***************************************************************************)
CadenceTicks == 3      \* reschedulings per client
CadenceNodes == {1, 3}

\* The client's entry point.
ClientStart(n) ==
  /\ ~sc[n].task /\ sc[n].delays = <<>>
  /\ sc' = [sc EXCEPT ![n] = reschedule(@, St(n))]
  /\ UNCHANGED <<now, mesh, userConfig, config, conns, seen, rudeIps, cache, rep,
                 vtimer, posts, nextConn, nextMsg, wire, last, msgCount,
                 evictCount, own, judged, heard, board, sg, cx, rp, vheard, flying, bh, rl>>

\* The scheduled task fires: one request, then the next task is scheduled.
ClientTick(n) ==
  /\ sc[n].task /\ sc[n].due = now /\ Len(sc[n].delays) < CadenceTicks
  /\ sc' = [sc EXCEPT ![n] = reschedule(@, St(n))]
  /\ UNCHANGED <<now, mesh, userConfig, config, conns, seen, rudeIps, cache, rep,
                 vtimer, posts, nextConn, nextMsg, wire, last, msgCount,
                 evictCount, own, judged, heard, board, sg, cx, rp, vheard, flying, bh, rl>>

\* The times at which a task is due and not yet run.
DueTimes ==
  {sc[n].due : n \in {m \in CadenceNodes : sc[m].task /\ sc[m].due >= now
                                            /\ Len(sc[m].delays) < CadenceTicks}}

\* Time passes up to the next due task.
ClockToDue ==
  /\ DueTimes # {} /\ Min(DueTimes) > now
  /\ AdvanceClock(Min(DueTimes) - now, Min(DueTimes))

NextCadence ==
  \/ \E n \in CadenceNodes : ClientStart(n)
  \/ \E n \in CadenceNodes : ClientTick(n)
  \/ ClockToDue
  \/ PeerConnect(3, 4, GossipLastMsgId)
  \/ \E n \in CadenceNodes, id \in {1, 4} : PeerClose(n, id)

SpecCadence == InitGossip /\ [][NextCadence]_vars

TransportDestroyed(n, id) ==
  /\ n \in mesh /\ id \in ConnIdsOf(n)
  /\ ~ConnOf(n, id).destroyed
  /\ LET i == FindFirst(conns[n], LAMBDA c : c.id = id)
         st == [St(n) EXCEPT !.conns[i].destroyed = TRUE,
                             !.conns[i].connected = FALSE]
     IN Apply(n, st, "destroyed", 0) /\ wire' = Transmit(st)

\* The close event of a destroyed transport reaches the network's listener.
TransportClose(n, id) ==
  /\ n \in mesh /\ id \in ConnIdsOf(n)
  /\ ConnOf(n, id).destroyed
  /\ PeerClose(n, id)

\* The error event of a transport that was destroyed with an error reaches
\* the network's listener; the transport emits close next.
TransportError(n, id) ==
  /\ n \in mesh /\ id \in ConnIdsOf(n)
  /\ ConnOf(n, id).destroyed /\ ~(last.op = "error" /\ last.node = n /\ last.arg = id)
  /\ LET st == onError(St(n), id)
     IN Apply(n, st, "error", id) /\ wire' = Transmit(st)

NextCollect ==
  \/ \E n \in Nodes, id \in 1..HealFirstConn : TransportDestroyed(n, id)
  \/ \E n \in Nodes, id \in 1..HealFirstConn : TransportError(n, id)
  \/ \E n \in Nodes, id \in 1..HealFirstConn : TransportClose(n, id)
  \/ \E n \in Nodes : GarbageCollectTick(n)

SpecCollect == InitHeal /\ [][NextCollect]_vars

\* C27: after one run of connection garbage collection no Connection whose
\* transport reports `destroyed` remains in the node's connection set,
\* however many there were before the run, and a `destroy-connection` event
\* was emitted for each Connection the run removed.
C27_GcRemovesEveryDestroyed ==
  [][(last'.op = "garbageCollect" /\ last' # last) =>
       LET n == last'.node
       IN /\ \A c \in Range(conns'[n]) : ~c.destroyed
          /\ \A c \in Range(conns[n]) :
               c.id \notin {d.id : d \in Range(conns'[n])} =>
                 \E i \in DOMAIN last'.ev :
                   last'.ev[i] = [type |-> "destroy-connection", id |-> c.id]]_vars


DestroyedIds(n) == {c.id : c \in {x \in Range(conns[n]) : x.destroyed}}

DestroyEvents(ev) ==
  {ev[i].id : i \in {j \in DOMAIN ev : ev[j].type = "destroy-connection"}}

\* C35: after a Connection's transport emitted `error` or `close` the
\* Connection is removed from the node's connection set and a
\* `destroy-connection` event is emitted for it: the close listener, which
\* the transport calls after an error too, can run for every destroyed
\* Connection that is still in the set and removes it, and each garbage
\* collection that finds destroyed Connections removes one of them; the
\* error listener alone removes nothing.
C35_FailureLeadsToRemoval ==
  [][\A n \in Nodes :
       /\ \A id \in 1..HealFirstConn :
            /\ TransportClose(n, id) =>
                 /\ id \notin {c.id : c \in Range(conns'[n])}
                 /\ id \in DestroyEvents(last'.ev)
            /\ TransportError(n, id) =>
                 /\ conns'[n] = conns[n]
                 /\ ENABLED TransportClose(n, id)
       /\ (GarbageCollectTick(n) /\ DestroyedIds(n) # {}) =>
            \E id \in DestroyedIds(n) :
              /\ {c.id : c \in Range(conns'[n])} = ConnIdsOf(n) \ {id}
              /\ id \in DestroyEvents(last'.ev)]_vars

\* C35 witness: the close event of a failed transport reached the listener,
\* and the node removed the Connection and emitted `destroy-connection`.
C35_ClosedAndRemoved ==
  /\ last.op = "close" /\ DestroyEvents(last.ev) # {}
  /\ Len(conns[last.node]) < Len(HealLine[last.node])
  /\ DestroyEvents(last.ev) \cap ConnIdsOf(last.node) = {}

(***************************************************************************)
(* SpecRounds: a Repeater whose onComplete calls begin() again, as the     *)
(* Network's does.  Its owner calls begin() and stop() at any time and     *)
(* every live interval fires.                                              *)
(***************************************************************************)
RoundIterations == 3   \* numIterations
MaxRounds == 3         \* completed rounds that are recorded
MaxBegins == 2         \* begin() calls of the owner between two stop()s
MaxTimers == 4         \* intervals set

RoundFrame ==
  UNCHANGED <<now, mesh, userConfig, config, conns, seen, rudeIps, cache, rep,
              vtimer, posts, nextConn, nextMsg, wire, last, msgCount,
              evictCount, own, judged, heard, board, sg, cx, sc, vheard, flying, bh, rl>>

RoundBegin ==
  /\ rp.begins < MaxBegins /\ rp.nextTimer <= MaxTimers
  /\ rp' = [RepeaterOwnerBegin(rp) EXCEPT !.begins = @ + 1]
  /\ RoundFrame

RoundStop ==
  /\ rp.begins > 0
  /\ rp' = [RepeaterOwnerStop(rp) EXCEPT !.begins = 0]
  /\ RoundFrame

\* A live interval fires.
RoundTick ==
  /\ rp.timers # {} /\ Len(rp.done) < MaxRounds /\ rp.nextTimer <= MaxTimers
  /\ rp' = RepeaterRunFunction(rp, RoundIterations)
  /\ RoundFrame

NextRounds == RoundBegin \/ RoundStop \/ RoundTick

SpecRounds == Init /\ [][NextRounds]_vars

\* C28: every round started by begin() invokes func exactly numIterations
\* times and then calls onComplete once, the rounds started by calling
\* begin() from inside onComplete included: func was invoked numIterations
\* times in every round that reached onComplete.
C28_EveryRoundRunsNumIterations ==
  \A i \in DOMAIN rp.done : rp.done[i] = RoundIterations

BackoffClockStep == 5000
BackoffSteps == 5          \* clock steps
BackoffMaxNow == StartTime + BackoffSteps * BackoffClockStep
BackoffLastConnId == 3     \* two connections are created after the initial one
BackoffLastMsgId == FirstMsgId + 2
VolunteerIds == {103, 104}

BackoffConfigs == {<<>>, [respectSwitchboardVolunteerMessages |-> FALSE]}

VolunteerOf2(id) ==
  Msg(id, 2, APP_ID, "switchboard-volunteer", VolunteerTtl, Star, NoData)

InitBackoff ==
  /\ now = StartTime
  /\ mesh = {Self}
  /\ \E uc \in BackoffConfigs :
       InitNodes([n \in Nodes |-> uc],
                 [n \in Nodes |-> IF n = Self THEN <<Link(1, Self, 2, TRUE, TRUE)>>
                                  ELSE <<>>], 2)
  /\ board = NoBoard

HearVolunteer(id) ==
  /\ \A ip \in Ips : Len(cache[Self][ip]) < MaxData
  /\ PeerData(Self, 1, TRUE, VolunteerOf2(id), BackoffLastMsgId)

BackoffElapsed ==
  \E t \in vheard[Self] :
    /\ now >= t + SWITCHBOARD_BACKOFF_DURATION
    /\ VolunteerFire(Self, t, BackoffLastMsgId)

NextBackoff ==
  \/ \E id \in VolunteerIds : HearVolunteer(id)
  \/ BackoffElapsed
  \/ RepeaterTick(Self, BackoffLastConnId, BackoffLastMsgId, MaxTicks)
  \/ \E id \in 2..BackoffLastConnId : PeerSignal(Self, id, BackoffLastMsgId)
  \/ SwitchboardResponse(Self, [ok |-> FALSE, items |-> <<>>], BackoffLastConnId)
  \/ AdvanceClock(BackoffClockStep, BackoffMaxNow)

SpecBackoff == InitBackoff /\ [][NextBackoff]_vars

\* The time at which node n last handled one of the volunteer messages, 0
\* when it handled none.
LastVolunteerHeard(n) ==
  Max({0} \cup {seen[n][id] : id \in DOMAIN seen[n] \cap VolunteerIds})

\* What the user asked for: respectSwitchboardVolunteerMessages is on unless
\* the config object passed to the constructor turns it off.
RespectAsked(n) ==
  IF "respectSwitchboardVolunteerMessages" \in DOMAIN userConfig[n]
  THEN userConfig[n].respectSwitchboardVolunteerMessages ELSE TRUE

\* With the flag on: a periodic request is made only when no volunteer
\* message was heard or the backoff since the last one has elapsed; hearing
\* one stops the requester and leaves exactly one resume timer, set at that
\* moment; and when the timer fires the requests resume.
BackoffWhenRespected ==
  /\ RepeaterTick(Self, BackoffLastConnId, BackoffLastMsgId, MaxTicks) =>
       \/ LastVolunteerHeard(Self) = 0
       \/ now >= LastVolunteerHeard(Self) + SWITCHBOARD_BACKOFF_DURATION
  /\ \A id \in VolunteerIds :
       (HearVolunteer(id) /\ id \notin DOMAIN seen[Self]) =>
          ~rep'[Self].on /\ vheard'[Self] = {now}
  /\ Cardinality(vheard'[Self]) <= 1
  /\ BackoffElapsed => (rep'[Self].on /\ vheard'[Self] = {})

\* With the flag off, hearing the message changes nothing of the requester
\* and its timers.
NothingWhenIgnored ==
  \A id \in VolunteerIds :
    HearVolunteer(id) =>
      rep'[Self] = rep[Self] /\ vtimer'[Self] = vtimer[Self]
        /\ vheard'[Self] = vheard[Self]

\* C30: with respectSwitchboardVolunteerMessages on, a node that hears
\* another node's switchboard-volunteer message makes no periodic request
\* until the backoff, measured from the last volunteer message heard, has
\* elapsed, keeps at most one pending resume timer, and resumes its requests
\* when that timer fires; with the flag off, hearing the message changes
\* nothing.
C30_VolunteerBackoff ==
  [][IF RespectAsked(Self) THEN BackoffWhenRespected ELSE NothingWhenIgnored]_vars

(***************************************************************************)
(* SpecOpen: node 1 in the asynchronous revision.  The offer-broadcast     *)
(* timer and the switchboard requester call getOrGenerateOpenConnection;   *)
(* the transport's offer signal arrives later; answers of the switching    *)
(* service bind the open connection.                                       *)
(***************************************************************************)
OpenLastConnId == 4
OpenLastMsgId == FirstMsgId + 2
MaxFlying == 1     \* calls of one caller awaiting a generation

OpenBooks ==
  {[ok |-> FALSE, items |-> <<>>]} \cup
  {[ok |-> TRUE, items |-> <<Negotiation("answer", c, k, IpOf(c))>>] :
     c \in {2, 3}, k \in 1..OpenLastConnId}

\* A timer fires: the caller runs up to its first await.
AsyncTimer(n, caller) ==
  /\ n \in mesh /\ nextMsg <= OpenLastMsgId /\ flying[n][caller] < MaxFlying
  /\ caller = "doSwitchboardRequest" => (rep[n].on /\ posts[n] < MaxPosts)
  /\ LET s1 == getOrGenerateOpenConnectionAsync(St(n), caller)
         st == IF s1.ret = 0 THEN s1 ELSE withOpenConnection(s1, caller)
     IN Apply(n, st, caller, 0) /\ wire' = Transmit(st)

\* The transport of a generation signals its offer: the caller resumes.
AsyncOfferSignal(n, caller) ==
  /\ n \in mesh /\ flying[n][caller] > 0
  /\ nextConn <= OpenLastConnId /\ nextMsg <= OpenLastMsgId
  /\ LET st == withOpenConnection(openConnectionGenerated(St(n), caller), caller)
     IN Apply(n, st, "offerSignal", 0) /\ wire' = Transmit(st)

NextOpen ==
  \/ \E caller \in Callers : AsyncTimer(Self, caller)
  \/ \E caller \in Callers : AsyncOfferSignal(Self, caller)
  \/ \E book \in OpenBooks : SwitchboardResponse(Self, book, OpenLastConnId)
  \/ \E id \in 1..OpenLastConnId : PeerClose(Self, id)

SpecOpen == Init /\ [][NextOpen]_vars

OpenConnections(n) ==
  {i \in DOMAIN conns[n] : conns[n][i].initiator /\ conns[n][i].clientId = NoClient}

\* C31: a node holds at most one open Connection (an initiator Connection
\* bound to no client) at any time, under every interleaving of the
\* offer-broadcast timer and the switchboard requester, also when the open
\* Connection is generated asynchronously.
C31_SingleOpenConnection ==
  \A n \in mesh : Cardinality(OpenConnections(n)) <= 1

(***************************************************************************)
(* SpecInbound: node 1, connected to node 2, receives well-formed JSON     *)
(* messages of every shape: application messages, the network's control    *)
(* messages with and without a data payload, and a message with the        *)
(* network's appId and a type the network does not know.                   *)
(***************************************************************************)
MaxInbound == 4          \* payloads received
Absent == [NoData EXCEPT !.present = FALSE]

InboundMessages ==
  {Msg(101, 2, "app", "hello", 1, Star, NoData),
   Msg(102, 2, "app", "hello", 1, Star, Absent),
   Msg(103, 2, APP_ID, "hello", 1, Star, NoData),
   Msg(104, 2, APP_ID, "offer", 1, Star, Absent),
   Msg(105, 2, APP_ID, "answer", 1, Self, Absent),
   Msg(106, 2, APP_ID, "log", 1, Self, Absent),
   Msg(107, 2, APP_ID, "log", 1, 3, Absent),
   Msg(108, 2, APP_ID, "log", 1, Self, NoData),
   Msg(109, 2, APP_ID, "switchboard-volunteer", 1, Star, Absent)}

InboundLastMsgId == FirstMsgId + 1

NextInbound ==
  \E m \in InboundMessages :
    /\ \A ip \in Ips : Len(cache[Self][ip]) < MaxInbound
    /\ PeerData(Self, 1, TRUE, m, InboundLastMsgId)

SpecInbound == InitBackoff /\ [][NextInbound]_vars

\* C34: handling a well-formed JSON message never raises an error out of
\* the transport's data handler, whatever its fields.
C34_InboundNeverThrows == last.op = "data" => ~last.threw

(***************************************************************************)
(* SpecCache: a BehaviorCache with a small maxMessageRate, called for two  *)
(* ips while the clock advances by less and by more than the rate window.  *)
(***************************************************************************)
CacheMaxRate == 2        \* maxMessageRate
CacheMaxCalls == 6       \* calls of isOnGoodBehavior per ip
CacheClockSteps == {RateWindow \div 2, RateWindow + 1}
CacheMaxNow == StartTime + 2 * RateWindow + 2
CacheIps == {IpOf(1), IpOf(2)}

CacheFrame ==
  UNCHANGED <<mesh, userConfig, config, conns, seen, rudeIps, cache, rep,
              vtimer, posts, nextConn, nextMsg, wire, last, msgCount,
              evictCount, own, judged, heard, board, sg, cx, sc, rp, vheard,
              flying, rl>>

CacheCall(ip) ==
  /\ Len(bh.calls[ip]) < CacheMaxCalls
  /\ bh' = BehaviorCacheCall(bh, CacheMaxRate, ip)
  /\ now' = now /\ CacheFrame

CacheClock(d) ==
  /\ now + d <= CacheMaxNow
  /\ now' = now + d /\ bh' = bh /\ CacheFrame

NextCache ==
  \/ \E ip \in CacheIps : CacheCall(ip)
  \/ \E d \in CacheClockSteps : CacheClock(d)

SpecCache == Init /\ [][NextCache]_vars

\* The calls for ip made within the 1000 ms before time t, the one at t
\* included.
CallsWithin(ip, t) ==
  Cardinality({i \in DOMAIN bh.calls[ip] : t - bh.calls[ip][i] <= RateWindow})

\* C36: isOnGoodBehavior(ip) returns false if and only if more than
\* maxMessageRate calls for that ip, counting the current one, were made
\* within the preceding 1000 ms, whatever the call history.
C36_VerdictIsRate ==
  bh.asked # 0 => (~bh.verdict <=> CallsWithin(bh.asked, bh.at) > CacheMaxRate)

(***************************************************************************)
(* Connection events of the single node (specification Spec, which starts  *)
(* with no Connection)                                                     *)
(***************************************************************************)
EventsAt(ev, type, id) ==
  {j \in DOMAIN ev : ev[j] = [type |-> type, id |-> id]}

AddEvents(ev) ==
  {ev[i].id : i \in {j \in DOMAIN ev : ev[j].type = "add-connection"}}

\* C39: for every Connection id, `destroy-connection` is emitted at most
\* once and only after `add-connection` was emitted for that id, and
\* connections() returns exactly the Connections added and not yet
\* destroyed.  Stated for every step of a node that starts with none: the
\* step emits each event at most once per id, destroys only Connections
\* that are in the set or that it added before, adds only new ones, and
\* leaves in the set exactly the old and the added ones less the destroyed.
C39_EventBookkeeping ==
  [][LET ev == last'.ev
         added == AddEvents(ev)
         destroyed == DestroyEvents(ev)
         ids == {c.id : c \in Range(conns'[Self])}
     IN /\ \A id \in destroyed :
             /\ Cardinality(EventsAt(ev, "destroy-connection", id)) = 1
             /\ \/ id \in ConnIdsOf(Self)
                \/ \E i \in EventsAt(ev, "add-connection", id) :
                     \A j \in EventsAt(ev, "destroy-connection", id) : i < j
        /\ \A id \in added :
             /\ Cardinality(EventsAt(ev, "add-connection", id)) = 1
             /\ id \notin ConnIdsOf(Self)
        /\ ids = (ConnIdsOf(Self) \cup added) \ destroyed
        /\ Cardinality(ids) = Len(conns'[Self])]_vars

\* C39 witness: a Connection that was added has been destroyed, its event
\* was emitted, and another Connection is still in the set.
C39_OneDestroyedOneKept ==
  /\ last.node = Self /\ DestroyEvents(last.ev) # {}
  /\ DestroyEvents(last.ev) \cap ConnIdsOf(Self) = {}
  /\ conns[Self] # <<>>

=============================================================================
